---- MODULE Spec2Model ----
(***************************************************************************)
(* The three SSE stream translators of the gateway                         *)
(*   (a) anthropicSSEtoOAIChunks     src/src/translators/sse.ts            *)
(*   (b) responsesSSEtoOAIChunks     src/src/translators/sse.ts            *)
(*   (c) responsesSSEToLegacyChunks  src/src/reasoning/stream-translator.ts*)
(* together with the frame reader they share and the error normalizer.     *)
(*                                                                         *)
(* Text is a sequence of character tokens, the upstream a sequence of      *)
(* byte tokens.  A token stands for a run of characters that the code      *)
(* never looks inside ("event:", an event name, a piece of a payload).     *)
(* The one two-byte character is "é" = C3 A9.                              *)
(***************************************************************************)
EXTENDS Integers, Sequences, FiniteSets, TLC

VARIABLES
    variant,            \* which translator this stream instance is: "a", "b", "c"
    buffered,           \* `buffered` / `buffer`: text not yet terminated by "\n\n"
    carry,              \* bytes of an incomplete code point kept by the TextDecoder
    sentRole,           \* `sentRole`
    finished,           \* `finished`
    blockTypeByIndex,   \* `blockTypeByIndex` (variant a)
    signatureByIndex,   \* `signatureByIndex` (variant a)
    usage,              \* `usage` (variant c)
    out,                \* what controller.enqueue received, in order
    stream,             \* state of the output stream: "readable", "closed", and
                        \* "cancelled" once the consumer has cancelled it
    pump,               \* "reading": a reader.read() is outstanding; "stopped"
    outstanding,        \* history: the reader.read() calls made and not yet settled
    events,             \* history: every SSEEvent parseSSELines returned, in order
    recv,               \* history: every byte the upstream delivered, in order
    sent,               \* history: the frames the upstream wrote completely
    cut,                \* the frame the upstream has written in part, and its
                        \* bytes still to come: <<>> or <<[frame, rest]>>
    splits,             \* history: the kinds of place where a chunk has ended
                        \* inside a frame
    \* ---- ToolTurn (src/unnamed/part_000) ----
    maxRounds,          \* `maxRounds`
    rounds,             \* `rounds`
    previousResponseId, \* `previousResponseId`: Null or a string
    pendingCalls,       \* `pendingCalls`
    configured,         \* history: the cap the constructor was called with
    outcomes,           \* history: how each incrementRoundOrThrow call ended
    \* ---- ReasoningService (src/README.md) ----
    toolExecutor,       \* `this.toolExecutor`: Null or the executor
    maxToolRounds,      \* `this.maxToolRounds`
    req,                \* the ChatCompletionRequest the entry point was called with
    payload,            \* `payload`: the body of the next upstream request
    lastResponseId,     \* `lastResponseId`
    outputText,         \* `outputText`
    finishReason,       \* `finish_reason` of create
    usageTotals,        \* `usage` of create
    currentCall,        \* `call`: the tool call the executor is running
    pc,                 \* where the entry point is: "idle"; in create "fetch",
                        \* "execute", "returned", "threw"; "streamed" when
                        \* createStream has returned
    result,             \* what the entry point returned (Nothing before), or the
                        \* message of the Error it threw
    requests,           \* history: the bodies of the upstream requests, in order
    responses,          \* history: what the upstream answered, in order
    executions,         \* history: the executor's invocations, in order
    \* ---- normalizeError (src/src/error-normalizer.ts) ----
    errorIn,            \* the arguments of normalizeError
    errorOut,           \* history: what normalizeError returned, call after call
    \* ---- a second translator instance, on an upstream of its own ----
    peer,               \* its variables: [variant, buffered, carry, st, pump, sent]
    \* ---- the request builders ----
    unified,            \* `req`: the unified request the builders are given
    built               \* history: what each builder call returned or threw

streamVars == <<variant, buffered, carry, sentRole, finished, blockTypeByIndex,
                signatureByIndex, usage, out, stream, pump, outstanding, events,
                recv, sent, cut, splits>>

turnVars == <<maxRounds, rounds, previousResponseId, pendingCalls, configured,
              outcomes>>

serviceVars == <<toolExecutor, maxToolRounds, req, payload, lastResponseId,
                 outputText, finishReason, usageTotals, currentCall, pc,
                 result,
                 requests, responses, executions>>

errorVars == <<errorIn, errorOut>>

peerVars == <<peer>>

mapperVars == <<unified, built>>

vars == <<streamVars, turnVars, serviceVars, errorVars, peerVars, mapperVars>>

(***************************************************************************)
(* Bounds of the model                                                     *)
(***************************************************************************)
MaxFrames == 4          \* frames an upstream writes
MaxChunkedFrames == 2   \* frames an upstream writes when it cuts them anywhere
MaxThinkingFrames == 5  \* frames an upstream of thinking blocks writes

(***************************************************************************)
(* Sequences                                                               *)
(***************************************************************************)
Range(s) == {s[i] : i \in DOMAIN s}

\* Array.prototype.join
RECURSIVE Join(_, _)
Join(ss, sep) ==
    IF ss = <<>> THEN <<>>
    ELSE IF Len(ss) = 1 THEN Head(ss)
    ELSE Head(ss) \o sep \o Join(Tail(ss), sep)

NL == "\n"
CR == "\r"
SP == " "
Whitespace == {NL, CR, SP}

\* String.prototype.trim
RECURSIVE TrimLeft(_)
TrimLeft(s) ==
    IF s # <<>> /\ Head(s) \in Whitespace THEN TrimLeft(Tail(s)) ELSE s

RECURSIVE TrimRight(_)
TrimRight(s) ==
    IF s # <<>> /\ s[Len(s)] \in Whitespace
    THEN TrimRight(SubSeq(s, 1, Len(s) - 1)) ELSE s

Trim(s) == TrimRight(TrimLeft(s))

\* String.prototype.indexOf("\n\n"), 1-based; 0 when there is none
RECURSIVE IndexOfDelim(_, _)
IndexOfDelim(s, from) ==
    IF from + 1 > Len(s) THEN 0
    ELSE IF s[from] = NL /\ s[from + 1] = NL THEN from
    ELSE IndexOfDelim(s, from + 1)

\* String.prototype.split("\n\n"): at least one segment, the last one is the
\* text after the last delimiter
RECURSIVE SplitDelim(_)
SplitDelim(s) ==
    LET i == IndexOfDelim(s, 1) IN
    IF i = 0 THEN <<s>>
    ELSE <<SubSeq(s, 1, i - 1)>> \o SplitDelim(SubSeq(s, i + 2, Len(s)))

\* String.prototype.split(/\r?\n/)
RECURSIVE SplitLines(_, _)
SplitLines(s, cur) ==
    IF s = <<>> THEN <<cur>>
    ELSE IF Head(s) = NL THEN <<cur>> \o SplitLines(Tail(s), <<>>)
    ELSE IF Head(s) = CR /\ Len(s) >= 2 /\ s[2] = NL
         THEN <<cur>> \o SplitLines(Tail(Tail(s)), <<>>)
    ELSE SplitLines(Tail(s), Append(cur, Head(s)))

(***************************************************************************)
(* TextDecoder.decode(bytes, {stream: true})                               *)
(***************************************************************************)
LeadByte == "C3"
ContByte == "A9"
EAcute == "é"
Replacement == "U+FFFD"

\* the UTF-8 encoding of one character
UTF8(c) == IF c = EAcute THEN <<LeadByte, ContByte>> ELSE <<c>>

RECURSIVE UTF8Text(_)
UTF8Text(s) == IF s = <<>> THEN <<>> ELSE UTF8(Head(s)) \o UTF8Text(Tail(s))

\* [text, carry]: the characters decoded from `bytes` and the bytes of a code
\* point that is not complete yet, which the next call starts with
RECURSIVE DecodeFrom(_, _, _)
DecodeFrom(pending, bytes, text) ==
    IF bytes = <<>> THEN [text |-> text, carry |-> pending]
    ELSE LET b == Head(bytes) IN
         IF pending = <<>>
         THEN IF b = LeadByte THEN DecodeFrom(<<b>>, Tail(bytes), text)
              ELSE IF b = ContByte
                   THEN DecodeFrom(<<>>, Tail(bytes), Append(text, Replacement))
              ELSE DecodeFrom(<<>>, Tail(bytes), Append(text, b))
         ELSE IF b = ContByte
              THEN DecodeFrom(<<>>, Tail(bytes), Append(text, EAcute))
              \* an invalid sequence: U+FFFD, and the byte is looked at again
              ELSE DecodeFrom(<<>>, bytes, Append(text, Replacement))

\* a decoder that is not told the input is a stream flushes what it holds
DecodeNoStream(pending, bytes) ==
    LET d == DecodeFrom(<<>>, bytes, <<>>) IN
    [text  |-> IF d.carry = <<>> THEN d.text ELSE Append(d.text, Replacement),
     carry |-> <<>>]

Decode(pending, bytes) == DecodeFrom(pending, bytes, <<>>)

(***************************************************************************)
(* JSON.  A parsed object is a record whose fields are the paths of the    *)
(* members that are present ("delta.text" for data.delta.text); a string   *)
(* is a sequence of characters, a number a natural.  On the wire an object *)
(* is "{", then for each member its path and its value (a digit, or the    *)
(* characters between two quotes), then "}".                               *)
(***************************************************************************)
QUOTE == "\""
LBRACE == "{"
RBRACE == "}"
Digits == <<"0", "1", "2", "3", "4", "5", "6", "7", "8", "9">>
DigitSet == Range(Digits)
DigitValue(t) == (CHOOSE i \in DOMAIN Digits : Digits[i] = t) - 1

\* the member paths the translators read, in the order they are written
KeyOrder == <<"type", "index", "content_block.type",
              "delta.type", "delta.text", "delta.thinking", "delta.signature",
              "delta.data", "delta.stop_reason", "stop_reason",
              "item_id", "summary_index", "delta", "text", "reason",
              "finish_reason",
              "usage.prompt_tokens", "usage.completion_tokens", "usage.total_tokens",
              "response.usage.prompt_tokens", "response.usage.completion_tokens",
              "response.usage.total_tokens", "id", "arguments">>
Keys == Range(KeyOrder)
NumKeys == {"index", "summary_index",
            "usage.prompt_tokens", "usage.completion_tokens", "usage.total_tokens",
            "response.usage.prompt_tokens", "response.usage.completion_tokens",
            "response.usage.total_tokens"}

EmptyObject == [k \in {} |-> <<>>]
JSONNull == [null |-> TRUE]

\* obj?.path : is the member there (and of the type its path has)
Has(obj, key) == key \in DOMAIN obj
\* obj?.path ?? ""
Str(obj, key) == IF key \in DOMAIN obj THEN obj[key] ELSE <<>>

\* the serialisation the upstream provider writes
RECURSIVE JSONMembers(_, _)
JSONMembers(obj, i) ==
    IF i > Len(KeyOrder) THEN <<>>
    ELSE LET k == KeyOrder[i] IN
         (IF k \notin DOMAIN obj THEN <<>>
          ELSE IF k \in NumKeys THEN <<k, Digits[obj[k] + 1]>>
          ELSE <<k, QUOTE>> \o UTF8Text(obj[k]) \o <<QUOTE>>)
         \o JSONMembers(obj, i + 1)

JSONText(obj) == <<LBRACE>> \o JSONMembers(obj, 1) \o <<RBRACE>>

\* index of the first QUOTE at or after `from`; 0 when there is none
RECURSIVE IndexOfQuote(_, _)
IndexOfQuote(s, from) ==
    IF from > Len(s) THEN 0
    ELSE IF s[from] = QUOTE THEN from
    ELSE IndexOfQuote(s, from + 1)

\* the members after "{": [ok, value]
RECURSIVE ParseMembers(_, _)
ParseMembers(s, acc) ==
    IF s = <<RBRACE>> THEN [ok |-> TRUE, value |-> acc]
    ELSE IF Len(s) < 3 \/ s[1] \notin Keys THEN [ok |-> FALSE, value |-> JSONNull]
    ELSE LET k == s[1] IN
         IF s[2] \in DigitSet
         THEN IF k \in NumKeys
              THEN ParseMembers(SubSeq(s, 3, Len(s)),
                                [x \in DOMAIN acc \cup {k} |->
                                    IF x = k THEN DigitValue(s[2]) ELSE acc[x]])
              ELSE [ok |-> FALSE, value |-> JSONNull]
         ELSE IF s[2] = QUOTE /\ k \notin NumKeys
         THEN LET j == IndexOfQuote(s, 3) IN
              IF j = 0
              THEN [ok |-> FALSE, value |-> JSONNull]
              ELSE ParseMembers(SubSeq(s, j + 1, Len(s)),
                                [x \in DOMAIN acc \cup {k} |->
                                    IF x = k THEN SubSeq(s, 3, j - 1) ELSE acc[x]])
         ELSE [ok |-> FALSE, value |-> JSONNull]

\* JSON.parse: [ok |-> FALSE] when it throws
JSONParse(s) ==
    IF s # <<>> /\ Head(s) = LBRACE
    THEN ParseMembers(Tail(s), EmptyObject)
    ELSE [ok |-> FALSE, value |-> JSONNull]

(***************************************************************************)
(* parseSSELines                                                           *)
(***************************************************************************)
EVENT == "event:"
DATA == "data:"

\* a parser that hands on an empty object for a payload it cannot parse
ParseDataEmptyObject(currentData) ==
    LET dataStr == Join(currentData, <<NL>>) IN
    IF dataStr = <<>> THEN JSONNull
    ELSE LET r == JSONParse(dataStr) IN IF r.ok THEN r.value ELSE EmptyObject

\* `dataStr ? JSON.parse(dataStr) : null`, null when the parse throws
ParseData(currentData) ==
    LET dataStr == Join(currentData, <<NL>>) IN
    IF dataStr = <<>> THEN JSONNull
    ELSE LET r == JSONParse(dataStr) IN IF r.ok THEN r.value ELSE JSONNull

\* sse.ts: the state is reset at every blank line
RECURSIVE ParseLines(_, _, _, _)
ParseLines(lines, currentEvent, currentData, evs) ==
    IF lines = <<>> THEN evs
    ELSE LET line == Head(lines) IN
         IF line # <<>> /\ Head(line) = EVENT
         THEN ParseLines(Tail(lines), Trim(Tail(line)), currentData, evs)
         ELSE IF line # <<>> /\ Head(line) = DATA
         THEN ParseLines(Tail(lines), currentEvent,
                         Append(currentData, Trim(Tail(line))), evs)
         ELSE IF Trim(line) = <<>>
         THEN ParseLines(Tail(lines), <<>>, <<>>,
                         IF currentEvent # <<>>
                         THEN Append(evs, [event |-> currentEvent,
                                           data  |-> ParseData(currentData)])
                         ELSE evs)
         ELSE ParseLines(Tail(lines), currentEvent, currentData, evs)

parseSSELines(text) == ParseLines(SplitLines(text, <<>>), <<>>, <<>>, <<>>)

\* stream-translator.ts: the state is reset only when an event was pushed
RECURSIVE ParseLinesLegacy(_, _, _, _)
ParseLinesLegacy(lines, eventName, dataLines, evs) ==
    IF lines = <<>> THEN evs
    ELSE LET line == Head(lines) IN
         IF line # <<>> /\ Head(line) = EVENT
         THEN ParseLinesLegacy(Tail(lines), Trim(Tail(line)), dataLines, evs)
         ELSE IF line # <<>> /\ Head(line) = DATA
         THEN ParseLinesLegacy(Tail(lines), eventName,
                               Append(dataLines, Trim(Tail(line))), evs)
         ELSE IF Trim(line) = <<>> /\ eventName # <<>>
         THEN ParseLinesLegacy(Tail(lines), <<>>, <<>>,
                               Append(evs, [event |-> eventName,
                                            data  |-> ParseData(dataLines)]))
         ELSE ParseLinesLegacy(Tail(lines), eventName, dataLines, evs)

parseSSELinesLegacy(frame) ==
    ParseLinesLegacy(SplitLines(frame, <<>>), <<>>, <<>>, <<>>)

(***************************************************************************)
(* Error normalizer (src/src/error-normalizer.ts).  A downstream body is   *)
(*   [kind |-> "string", text |-> characters]     a raw string             *)
(*   [kind |-> "json", obj |-> parsed object]     parsed JSON              *)
(*   [kind |-> "other"]                           anything else            *)
(***************************************************************************)
MsgLimit == 2000
ControlChars == {NL, CR, "\t"}

Min(a, b) == IF a < b THEN a ELSE b

sanitizeMsg(m) ==
    LET kept == SelectSeq(m, LAMBDA c : c \notin ControlChars) IN
    SubSeq(kept, 1, Min(Len(kept), MsgLimit))

coerceStatus(s) ==
    IF s = 404 \/ s = 413 THEN 400
    ELSE IF s = 529 THEN 503
    ELSE IF s >= 500 /\ s # 500 /\ s # 503 THEN 502
    ELSE s

mapAnthropicStatus(status, anthropicType) ==
    IF status = 404 THEN 400
    ELSE IF status = 413 THEN 400
    ELSE IF status = 529 \/ anthropicType = "overloaded_error" THEN 503
    ELSE IF status >= 500 /\ status # 500 /\ status # 503 THEN 502
    ELSE status

mapTypeOpenAI(t) ==
    IF t \in {"invalid_request_error", "authentication_error",
              "permission_error", "rate_limit_error"}
    THEN t ELSE "server_error"

\* a mapping that hands provider A's type through
mapAnthropicTypeThrough(t) == [type |-> t, code |-> "null"]

mapAnthropicType(t) ==
    CASE t = "invalid_request_error" -> [type |-> "invalid_request_error", code |-> "null"]
      [] t = "authentication_error"  -> [type |-> "authentication_error", code |-> "invalid_api_key"]
      [] t = "permission_error"      -> [type |-> "permission_error", code |-> "insufficient_permissions"]
      [] t = "not_found_error"       -> [type |-> "invalid_request_error", code |-> "not_found"]
      [] t = "request_too_large"     -> [type |-> "invalid_request_error", code |-> "request_too_large"]
      [] t = "rate_limit_error"      -> [type |-> "rate_limit_error", code |-> "rate_limit_exceeded"]
      [] t = "overloaded_error"      -> [type |-> "server_error", code |-> "overloaded_error"]
      [] OTHER                       -> [type |-> "server_error", code |-> "api_error"]

ErrorBody(message, type, param, code) ==
    [error |-> [message |-> message, type |-> type, param |-> param, code |-> code]]

\* a fallback that answers 500 without a code
FallbackServerError ==
    [status |-> 500,
     body   |-> ErrorBody(<<"An downstream error occurred and could not be normalized">>,
                          "server_error", "null", "null")]

Fallback ==
    [status |-> 502,
     body   |-> ErrorBody(<<"An downstream error occurred and could not be normalized">>,
                          "server_error", "null", "normalization_failure")]

\* the branch both providers take for a body that is a raw string
RawStringError(downstreamStatus, text) ==
    [status |-> coerceStatus(downstreamStatus),
     body   |-> ErrorBody(sanitizeMsg(text),
                          IF downstreamStatus >= 500 THEN "server_error"
                          ELSE "invalid_request_error",
                          "null", "null")]

\* obj?.path ?? "null" for a member whose value is a plain string
Member(obj, key) == IF key \in DOMAIN obj THEN obj[key] ELSE "null"

normalizeError(downstream, downstreamStatus, downstreamBody) ==
    LET j == IF downstreamBody.kind = "json" THEN downstreamBody.obj ELSE EmptyObject
        hasMessage == "error.message" \in DOMAIN j
    IN
    IF downstream = "openai"
    THEN IF hasMessage
         THEN [status |-> coerceStatus(downstreamStatus),
               body   |-> ErrorBody(sanitizeMsg(j["error.message"]),
                                    mapTypeOpenAI(Member(j, "error.type")),
                                    Member(j, "error.param"),
                                    Member(j, "error.code"))]
         ELSE IF downstreamBody.kind = "string"
         THEN RawStringError(downstreamStatus, downstreamBody.text)
         ELSE Fallback
    ELSE IF Member(j, "type") = "error" /\ hasMessage
         THEN LET mapped == mapAnthropicType(Member(j, "error.type")) IN
              [status |-> mapAnthropicStatus(downstreamStatus, Member(j, "error.type")),
               body   |-> ErrorBody(sanitizeMsg(j["error.message"]),
                                    mapped.type, "null", mapped.code)]
         ELSE IF downstreamBody.kind = "string"
         THEN RawStringError(downstreamStatus, downstreamBody.text)
         ELSE Fallback

(***************************************************************************)
(* Output frames.  Every enqueued chunk is one line `data: <payload>\n\n`; *)
(* it is kept as its payload.  id, created and model are the same in every *)
(* chunk of a stream and are left out.                                     *)
(***************************************************************************)
encodeDataLine(objOrString) == [data |-> objOrString]

sseErrorFrame(normalized) == [data |-> normalized]

DONE == [literal |-> "[DONE]"]

openAIChunkEnvelope(delta, finish_reason) ==
    [object |-> "chat.completion.chunk", index |-> 0,
     delta |-> delta, finish_reason |-> finish_reason]

RoleChunk == encodeDataLine(openAIChunkEnvelope([role |-> "assistant"], "null"))
ContentChunk(text) == encodeDataLine(openAIChunkEnvelope([content |-> text], "null"))
FinishChunk(reason) == encodeDataLine(openAIChunkEnvelope(EmptyObject, reason))

ThinkingFrame(type, thinking, signature) ==
    encodeDataLine([type |-> type,
                    data |-> [type |-> "thinking", thinking |-> thinking,
                              signature |-> signature]])

RedactedFrame(type, data) ==
    encodeDataLine([type |-> type, data |-> [type |-> "redacted_thinking", data |-> data]])

UsageSummary(u) == encodeDataLine([object |-> "usage.summary", usage |-> u])

StreamTerminated == [kind |-> "string", text |-> <<"stream terminated">>]
BadGateway == 502

\* what the catch handler of (a) and (b) enqueues first
TerminalErrorFrame(downstream) ==
    sseErrorFrame(normalizeError(downstream, BadGateway, StreamTerminated).body)

(***************************************************************************)
(* The translators' event handlers.  `st` is the closure state one stream  *)
(* instance owns: [sentRole, finished, blockTypeByIndex, signatureByIndex, *)
(* usage, out].  eventCount and accTextLen are only written (logging) and  *)
(* are left out.                                                           *)
(***************************************************************************)
Enqueue(st, frame) == [st EXCEPT !.out = Append(@, frame)]

\* a Record<number, string> with one entry set / deleted
MapSet(m, idx, v) == [i \in DOMAIN m \cup {idx} |-> IF i = idx THEN v ELSE m[i]]
MapDelete(m, idx) == [i \in DOMAIN m \ {idx} |-> m[i]]
\* m[idx] || ""
MapGet(m, idx) == IF idx \in DOMAIN m THEN m[idx] ELSE <<>>
EmptyMap == [i \in {} |-> <<>>]

pushAssistantRoleIfNeeded(st) ==
    IF ~st.sentRole
    THEN [Enqueue(st, RoleChunk) EXCEPT !.sentRole = TRUE]
    ELSE st

\* stream-translator.ts sets the flag before it enqueues; the result is the same
pushAssistantRoleIfNeededLegacy(st) ==
    IF ~st.sentRole
    THEN Enqueue([st EXCEPT !.sentRole = TRUE], RoleChunk)
    ELSE st

\* ---- variant (a): anthropicSSEtoOAIChunks ------------------------------
\* a content_block_start that keeps the signature the index already has
ContentBlockStartNoReset(st, data) ==
    LET cbType == Str(data, "content_block.type") IN
    IF Has(data, "index")
    THEN [st EXCEPT !.blockTypeByIndex = MapSet(@, data["index"], cbType),
                    !.signatureByIndex = MapSet(@, data["index"],
                                                MapGet(@, data["index"]))]
    ELSE st

ContentBlockStart(st, data) ==
    LET cbType == Str(data, "content_block.type") IN
    IF Has(data, "index")
    THEN [st EXCEPT !.blockTypeByIndex = MapSet(@, data["index"], cbType),
                    !.signatureByIndex = MapSet(@, data["index"], <<>>)]
    ELSE st

\* a thinking part that hands each signature piece on as it arrives
ThinkingDeltaShowsSignature(st, data) ==
    LET deltaType == Str(data, "delta.type") IN
    IF deltaType = <<"thinking_delta">> /\ Str(data, "delta.thinking") # <<>>
    THEN Enqueue(st, ThinkingFrame("oai.thinking.delta", Str(data, "delta.thinking"), <<>>))
    ELSE IF deltaType = <<"signature_delta">> /\ Str(data, "delta.signature") # <<>>
    THEN Enqueue(st, ThinkingFrame("oai.thinking.delta", <<>>, Str(data, "delta.signature")))
    ELSE st

\* the thinking part of content_block_delta
ThinkingDelta(st, data) ==
    LET deltaType == Str(data, "delta.type") IN
    IF deltaType = <<"thinking_delta">>
    THEN LET thinkingDelta == Str(data, "delta.thinking") IN
         IF thinkingDelta # <<>>
         THEN Enqueue(st, ThinkingFrame("oai.thinking.delta", thinkingDelta, <<>>))
         ELSE st
    ELSE IF deltaType = <<"signature_delta">>
    THEN LET sig == Str(data, "delta.signature") IN
         IF sig # <<>> /\ Has(data, "index")
         THEN [st EXCEPT !.signatureByIndex =
                    MapSet(@, data["index"], MapGet(@, data["index"]) \o sig)]
         ELSE st
    ELSE IF deltaType = <<"redacted_thinking_delta">>
    THEN LET redactedData == Str(data, "delta.data") IN
         IF redactedData # <<>>
         THEN Enqueue(st, RedactedFrame("oai.thinking.delta", redactedData))
         ELSE st
    ELSE st

ContentBlockDelta(st, data) ==
    LET st1 == ThinkingDelta(pushAssistantRoleIfNeeded(st), data)
        textDelta == Str(data, "delta.text")
    IN  IF textDelta # <<>> THEN Enqueue(st1, ContentChunk(textDelta)) ELSE st1

\* a content_block_stop that leaves the entries of the index in place
ContentBlockStopKeepsBlock(st, data) ==
    IF Has(data, "index")
    THEN LET idx == data["index"]
             cbType == MapGet(st.blockTypeByIndex, idx)
         IN  IF cbType = <<"thinking">>
             THEN Enqueue(st, ThinkingFrame("oai.thinking.done", <<>>,
                                            MapGet(st.signatureByIndex, idx)))
             ELSE IF cbType = <<"redacted_thinking">>
             THEN Enqueue(st, RedactedFrame("oai.thinking.done", <<>>))
             ELSE st
    ELSE st

ContentBlockStop(st, data) ==
    IF Has(data, "index")
    THEN LET idx == data["index"]
             cbType == MapGet(st.blockTypeByIndex, idx)
             st1 == IF cbType = <<"thinking">>
                    THEN Enqueue(st, ThinkingFrame("oai.thinking.done", <<>>,
                                                   MapGet(st.signatureByIndex, idx)))
                    ELSE IF cbType = <<"redacted_thinking">>
                    THEN Enqueue(st, RedactedFrame("oai.thinking.done", <<>>))
                    ELSE st
         IN  [st1 EXCEPT !.blockTypeByIndex = MapDelete(@, idx),
                         !.signatureByIndex = MapDelete(@, idx)]
    ELSE st

\* a finish mapping with the two reasons exchanged
MessageDeltaSwapped(st, data) ==
    LET stopReason == IF Has(data, "delta.stop_reason")
                      THEN data["delta.stop_reason"] ELSE Str(data, "stop_reason")
    IN  IF stopReason = <<"end_turn">> THEN Enqueue(st, FinishChunk("length"))
        ELSE IF stopReason = <<"max_tokens">> THEN Enqueue(st, FinishChunk("stop"))
        ELSE st

\* a finish mapping that ends the reply on every stop reason
MessageDeltaAnyReason(st, data) ==
    LET stopReason == IF Has(data, "delta.stop_reason")
                      THEN data["delta.stop_reason"] ELSE Str(data, "stop_reason")
    IN  IF stopReason = <<"max_tokens">> THEN Enqueue(st, FinishChunk("length"))
        ELSE IF stopReason # <<>> THEN Enqueue(st, FinishChunk("stop"))
        ELSE st

MessageDelta(st, data) ==
    LET stopReason == IF Has(data, "delta.stop_reason")
                      THEN data["delta.stop_reason"] ELSE Str(data, "stop_reason")
    IN  IF stopReason = <<"end_turn">> THEN Enqueue(st, FinishChunk("stop"))
        ELSE IF stopReason = <<"max_tokens">> THEN Enqueue(st, FinishChunk("length"))
        ELSE st

HandleAnthropic(st, e) ==
    IF e.event = <<"message_start">> THEN pushAssistantRoleIfNeeded(st)
    ELSE IF e.event = <<"content_block_start">> THEN ContentBlockStart(st, e.data)
    ELSE IF e.event = <<"content_block_delta">> THEN ContentBlockDelta(st, e.data)
    ELSE IF e.event = <<"content_block_stop">> THEN ContentBlockStop(st, e.data)
    ELSE IF e.event = <<"message_delta">> THEN MessageDelta(st, e.data)
    ELSE st

\* ---- variant (b): responsesSSEtoOAIChunks ------------------------------
\* String.prototype.includes for a pattern that is one token of the name
Includes(ev, pattern) == pattern \in Range(ev)

emitFinish(st, reason) ==
    IF st.finished THEN st ELSE Enqueue(st, FinishChunk(reason))

\* JSON.stringify({item_id, summary_index})
CorrelationToken(data) ==
    <<LBRACE, "item_id", QUOTE>> \o Str(data, "item_id")
    \o <<QUOTE, "summary_index",
         IF Has(data, "summary_index") THEN Digits[data["summary_index"] + 1]
         ELSE "null", RBRACE>>

HandleResponses(st, e) ==
    LET ev == e.event
        data == e.data
    IN
    IF Includes(ev, "reasoning_summary_part.added")
    THEN Enqueue(st, ThinkingFrame("oai.thinking.part.added", <<>>, CorrelationToken(data)))
    ELSE IF Includes(ev, "reasoning_summary_part.done")
    THEN Enqueue(st, ThinkingFrame("oai.thinking.part.done", <<>>, CorrelationToken(data)))
    ELSE IF Includes(ev, "reasoning_summary_text.delta")
    THEN LET textDelta == IF Has(data, "delta") THEN data["delta"] ELSE Str(data, "text") IN
         IF textDelta # <<>>
         THEN Enqueue(pushAssistantRoleIfNeeded(st),
                      ThinkingFrame("oai.thinking.delta", textDelta, <<>>))
         ELSE st
    ELSE IF Includes(ev, "reasoning_summary_text.done")
    THEN LET textFinal == Str(data, "text") IN
         IF textFinal # <<>>
         THEN Enqueue(pushAssistantRoleIfNeeded(st),
                      ThinkingFrame("oai.thinking.done", textFinal, <<>>))
         ELSE st
    ELSE IF Includes(ev, "output_text.delta") \/ Has(data, "delta")
    THEN LET textDelta == Str(data, "delta") IN
         IF textDelta # <<>>
         THEN Enqueue(pushAssistantRoleIfNeeded(st), ContentChunk(textDelta))
         ELSE st
    ELSE IF Includes(ev, "response.completed")
    THEN emitFinish(pushAssistantRoleIfNeeded(st), "stop")
    ELSE IF Includes(ev, "response.incomplete")
    THEN emitFinish(pushAssistantRoleIfNeeded(st),
                    IF Str(data, "reason") = <<"max_output_tokens">> THEN "length"
                    ELSE "stop")
    ELSE st

\* ---- variant (c): responsesSSEToLegacyChunks ---------------------------
ZeroUsage == [prompt_tokens |-> 0, completion_tokens |-> 0, total_tokens |-> 0]

\* `u = data?.usage ?? data?.response?.usage ?? null`, and the update it makes
UsageUpdate(u0, data) ==
    LET prefix == IF \E k \in DOMAIN data :
                        k \in {"usage.prompt_tokens", "usage.completion_tokens",
                               "usage.total_tokens"}
                  THEN "usage"
                  ELSE "response.usage"
        key(f) == IF prefix = "usage"
                  THEN CASE f = "prompt_tokens" -> "usage.prompt_tokens"
                         [] f = "completion_tokens" -> "usage.completion_tokens"
                         [] OTHER -> "usage.total_tokens"
                  ELSE CASE f = "prompt_tokens" -> "response.usage.prompt_tokens"
                         [] f = "completion_tokens" -> "response.usage.completion_tokens"
                         [] OTHER -> "response.usage.total_tokens"
    IN  IF Has(data, key("total_tokens"))
        THEN [prompt_tokens |-> IF Has(data, key("prompt_tokens"))
                                THEN data[key("prompt_tokens")] ELSE u0.prompt_tokens,
              completion_tokens |-> IF Has(data, key("completion_tokens"))
                                    THEN data[key("completion_tokens")]
                                    ELSE u0.completion_tokens,
              total_tokens |-> data[key("total_tokens")]]
        ELSE u0

ResponseCompleted(st, data) ==
    LET st1 == [st EXCEPT !.usage = UsageUpdate(@, data)]
        stopReason == Str(data, "finish_reason")
        finish == IF stopReason = <<"stop">> THEN "stop"
                  ELSE IF stopReason = <<"length">> \/ stopReason = <<"max_output_tokens">>
                       THEN "length"
                  ELSE "null"
    IN  Enqueue(st1, FinishChunk(finish))

\* a dispatch that reads the usage of every event
HandleLegacyAnyUsage(st, e) ==
    IF e.event = <<"response.", "output_text.delta">>
    THEN LET deltaText == Str(e.data, "delta") IN
         IF deltaText # <<>>
         THEN Enqueue(pushAssistantRoleIfNeededLegacy(st), ContentChunk(deltaText))
         ELSE st
    ELSE IF e.event = <<"response.completed">>
    THEN ResponseCompleted(st, e.data)
    ELSE [st EXCEPT !.usage = UsageUpdate(@, e.data)]

HandleLegacy(st, e) ==
    IF e.event = <<"response.", "output_text.delta">>
    THEN LET deltaText == Str(e.data, "delta") IN
         IF deltaText # <<>>
         THEN Enqueue(pushAssistantRoleIfNeededLegacy(st), ContentChunk(deltaText))
         ELSE st
    ELSE IF e.event = <<"response.completed">>
    THEN ResponseCompleted(st, e.data)
    ELSE IF e.event = <<"rate_limits.updated">>
    THEN [st EXCEPT !.usage = UsageUpdate(@, e.data)]
    ELSE st

(***************************************************************************)
(* processText (a, b) and the frame loop of pump (c)                       *)
(***************************************************************************)
Handle(v, st, e) ==
    IF v = "a" THEN HandleAnthropic(st, e)
    ELSE IF v = "b" THEN HandleResponses(st, e)
    ELSE HandleLegacy(st, e)

RECURSIVE HandleAll(_, _, _)
HandleAll(v, st, evs) ==
    IF evs = <<>> THEN st ELSE HandleAll(v, Handle(v, st, Head(evs)), Tail(evs))

\* the events of the complete segments, in order
RECURSIVE SegmentEvents(_)
SegmentEvents(segments) ==
    IF segments = <<>> THEN <<>>
    ELSE parseSSELines(Head(segments) \o <<NL, NL>>) \o SegmentEvents(Tail(segments))

\* sse.ts: buffered += text; split; keep the last segment; handle the others
processText(v, st, buf, text) ==
    LET segments == SplitDelim(buf \o text)
        evs == SegmentEvents(SubSeq(segments, 1, Len(segments) - 1))
    IN  [st |-> HandleAll(v, st, evs), buffered |-> segments[Len(segments)], events |-> evs]

\* stream-translator.ts: while ((idx = buffer.indexOf("\n\n")) >= 0) handleFrame(...)
RECURSIVE FrameLoop(_, _, _)
FrameLoop(st, buffer, evs) ==
    LET idx == IndexOfDelim(buffer, 1) IN
    IF idx = 0 THEN [st |-> st, buffered |-> buffer, events |-> evs]
    ELSE LET frame == SubSeq(buffer, 1, idx - 1)
             es == parseSSELinesLegacy(frame \o <<NL, NL>>)
         IN  FrameLoop(HandleAll("c", st, es), SubSeq(buffer, idx + 2, Len(buffer)), evs \o es)

\* one resolved read: decode the chunk, then run the variant's frame processing
OnChunk(v, st, buf, pending, bytes) ==
    LET d == Decode(pending, bytes)
        r == IF v = "c" THEN FrameLoop(st, buf \o d.text, <<>>)
             ELSE processText(v, st, buf, d.text)
    IN  [st |-> r.st, buffered |-> r.buffered, events |-> r.events, carry |-> d.carry]

\* emitDone of (a) and (b)
emitDone(st) ==
    IF ~st.finished
    THEN [Enqueue(st, encodeDataLine(DONE)) EXCEPT !.finished = TRUE]
    ELSE st

\* an emitDone that writes the usage summary before the terminal marker
emitDoneLegacySummaryFirst(st) ==
    IF st.finished THEN st
    ELSE Enqueue(Enqueue([st EXCEPT !.finished = TRUE], UsageSummary(st.usage)),
                 encodeDataLine(DONE))

\* emitDone of (c): [DONE], then the usage summary
emitDoneLegacy(st) ==
    IF st.finished THEN st
    ELSE Enqueue(Enqueue([st EXCEPT !.finished = TRUE], encodeDataLine(DONE)),
                 UsageSummary(st.usage))

\* the provider named when the caller passes no `downstream`
DefaultDownstream(v) == IF v = "a" THEN "anthropic" ELSE "openai"

\* a catch handler that reports the error and forgets the terminal marker
OnReadErrorNoDone(v, st) ==
    IF v = "c" THEN emitDoneLegacy(st)
    ELSE [Enqueue(st, TerminalErrorFrame(DefaultDownstream(v))) EXCEPT !.finished = TRUE]

\* the .catch handler of the read chain
OnReadError(v, st) ==
    IF v = "c" THEN emitDoneLegacy(st)
    ELSE [Enqueue(Enqueue(st, TerminalErrorFrame(DefaultDownstream(v))),
                  encodeDataLine(DONE))
          EXCEPT !.finished = TRUE]

(***************************************************************************)
(* The state machine of one stream instance                                *)
(***************************************************************************)
State == [sentRole |-> sentRole, finished |-> finished,
          blockTypeByIndex |-> blockTypeByIndex,
          signatureByIndex |-> signatureByIndex,
          usage |-> usage, out |-> out]

SetState(st) ==
    /\ sentRole' = st.sentRole
    /\ finished' = st.finished
    /\ blockTypeByIndex' = st.blockTypeByIndex
    /\ signatureByIndex' = st.signatureByIndex
    /\ usage' = st.usage
    /\ out' = st.out

Variants == {"a", "b", "c"}

\* null and undefined, for the values the orchestrator keeps as plain strings
Null == "null"

\* null and undefined, for a variable that holds an object
Nothing == [nothing |-> TRUE]

\* no ToolTurn has been constructed
NoToolTurn ==
    /\ maxRounds = 0
    /\ rounds = 0
    /\ previousResponseId = Null
    /\ pendingCalls = <<>>
    /\ configured = <<>>
    /\ outcomes = <<>>

\* no ReasoningService entry point has been called
NoService ==
    /\ toolExecutor = Null
    /\ maxToolRounds = 0
    /\ req = Nothing
    /\ payload = Nothing
    /\ lastResponseId = Null
    /\ outputText = <<>>
    /\ finishReason = Null
    /\ usageTotals = ZeroUsage
    /\ currentCall = Nothing
    /\ pc = "idle"
    /\ result = Nothing
    /\ requests = <<>>
    /\ responses = <<>>
    /\ executions = <<>>

\* normalizeError has not been called
NoError ==
    /\ errorIn = Nothing
    /\ errorOut = <<>>

\* the variables of a translator when the function returns
InitialState ==
    [sentRole |-> FALSE, finished |-> FALSE, blockTypeByIndex |-> EmptyMap,
     signatureByIndex |-> EmptyMap, usage |-> ZeroUsage, out |-> <<>>]

\* a translator instance of variant v, its first read outstanding or not
NewInstance(v, reading) ==
    [variant |-> v, buffered |-> <<>>, carry |-> <<>>, st |-> InitialState,
     pump |-> IF reading THEN "reading" ELSE "idle", sent |-> <<>>]

\* no second translator has been started
NoPeer == peer = NewInstance("c", FALSE)

\* no request builder has been called
NoMapper ==
    /\ unified = [model |-> "none", messages |-> <<>>]
    /\ built = <<>>

\* a translator that has not been started
NoStream ==
    /\ variant = "c"
    /\ buffered = <<>>
    /\ carry = <<>>
    /\ sentRole = FALSE
    /\ finished = FALSE
    /\ blockTypeByIndex = EmptyMap
    /\ signatureByIndex = EmptyMap
    /\ usage = ZeroUsage
    /\ out = <<>>
    /\ stream = "readable"
    /\ pump = "idle"
    /\ outstanding = 0
    /\ events = <<>>
    /\ recv = <<>>
    /\ sent = <<>>
    /\ cut = <<>>
    /\ splits = {}

StartedOf(vs) ==
    /\ NoToolTurn
    /\ NoMapper
    /\ NoService
    /\ NoError
    /\ variant \in vs
    /\ buffered = <<>>
    /\ carry = <<>>
    /\ sentRole = FALSE
    /\ finished = FALSE
    /\ blockTypeByIndex = EmptyMap
    /\ signatureByIndex = EmptyMap
    /\ usage = ZeroUsage
    /\ out = <<>>
    /\ stream = "readable"
    /\ pump = "reading"
    /\ outstanding = 1
    /\ events = <<>>
    /\ recv = <<>>
    /\ sent = <<>>
    /\ cut = <<>>
    /\ splits = {}

\* one translator of a variant in vs has been started, and no other
InitOf(vs) == StartedOf(vs) /\ NoPeer

Init == InitOf(Variants)

\* a handler that asks for the next chunk twice
IssueReadTwice(n) == n + 2

\* `reader.read().then(...)`: one more read is outstanding
IssueRead(n) == n + 1

\* reader.read() resolves with {done: false, value: bytes}
Read(bytes) ==
    /\ pump = "reading"
    /\ LET r == OnChunk(variant, State, buffered, carry, bytes) IN
        /\ SetState(r.st)
        /\ buffered' = r.buffered
        /\ carry' = r.carry
        /\ events' = events \o r.events
    /\ recv' = recv \o bytes
    /\ outstanding' = IssueRead(outstanding - 1)
    /\ UNCHANGED <<variant, stream, pump>>
    /\ UNCHANGED <<turnVars, serviceVars, errorVars, peerVars, mapperVars>>

\* an end of stream that first flushes the accumulator as if it were a frame
ReadDoneFlush ==
    /\ pump = "reading"
    /\ LET r == OnChunk(variant, State, buffered, carry, <<NL, NL>>) IN
        /\ SetState(IF variant = "c" THEN emitDoneLegacy(r.st) ELSE emitDone(r.st))
        /\ buffered' = r.buffered
        /\ events' = events \o r.events
    /\ stream' = "closed"
    /\ pump' = "stopped"
    /\ outstanding' = outstanding - 1
    /\ UNCHANGED <<variant, carry, recv, sent, cut, splits>>
    /\ UNCHANGED <<turnVars, serviceVars, errorVars, peerVars, mapperVars>>

\* reader.read() resolves with {done: true}
ReadDone ==
    /\ pump = "reading"
    /\ SetState(IF variant = "c" THEN emitDoneLegacy(State) ELSE emitDone(State))
    /\ stream' = "closed"
    /\ pump' = "stopped"
    /\ outstanding' = outstanding - 1
    /\ UNCHANGED <<variant, buffered, carry, events, recv, sent, cut, splits>>
    /\ UNCHANGED <<turnVars, serviceVars, errorVars, peerVars, mapperVars>>

\* a catch handler that writes the terminal frames and does not close
ReadFailLeftOpen ==
    /\ pump = "reading"
    /\ SetState(OnReadError(variant, State))
    /\ pump' = "failed"
    /\ outstanding' = outstanding - 1
    /\ UNCHANGED <<variant, stream, buffered, carry, events, recv, sent, cut, splits>>
    /\ UNCHANGED <<turnVars, serviceVars, errorVars, peerVars, mapperVars>>

\* reader.read() rejects
ReadFail ==
    /\ pump = "reading"
    /\ SetState(OnReadError(variant, State))
    /\ stream' = "closed"
    /\ pump' = "failed"
    /\ outstanding' = outstanding - 1
    /\ UNCHANGED <<variant, buffered, carry, events, recv, sent, cut, splits>>
    /\ UNCHANGED <<turnVars, serviceVars, errorVars, peerVars, mapperVars>>

(***************************************************************************)
(* Upstreams                                                               *)
(***************************************************************************)
Frame(ev, data) == [ev |-> ev, data |-> data]

\* the bytes of one frame: an event: line, a data: line, a blank line
Wire(f) == <<EVENT, SP>> \o f.ev \o <<NL, DATA, SP>> \o JSONText(f.data) \o <<NL, NL>>

TextDeltaA(text) ==
    Frame(<<"content_block_delta">>,
          ("delta.type" :> <<"text_delta">>) @@ ("delta.text" :> text))


MessageStart == Frame(<<"message_start">>, "type" :> <<"message_start">>)

BlockStart(idx, type) ==
    Frame(<<"content_block_start">>, ("index" :> idx) @@ ("content_block.type" :> type))

BlockStop(idx) == Frame(<<"content_block_stop">>, "index" :> idx)

ThinkingDeltaA(idx, text) ==
    Frame(<<"content_block_delta">>,
          ("index" :> idx) @@ ("delta.type" :> <<"thinking_delta">>)
          @@ ("delta.thinking" :> text))

SignatureDelta(idx, sig) ==
    Frame(<<"content_block_delta">>,
          ("index" :> idx) @@ ("delta.type" :> <<"signature_delta">>)
          @@ ("delta.signature" :> sig))

MessageDeltaA(stop) == Frame(<<"message_delta">>, "delta.stop_reason" :> stop)

OutputTextDelta(text) == Frame(<<"response.", "output_text.delta">>, "delta" :> text)

SummaryPartAdded ==
    Frame(<<"response.", "reasoning_summary_part.added">>,
          ("item_id" :> <<"rs_1">>) @@ ("summary_index" :> 0))

SummaryTextDelta(text) ==
    Frame(<<"response.", "reasoning_summary_text.delta">>, "delta" :> text)

\* a tool call's arguments arrive as string deltas too
FunctionCallArgumentsDelta(text) ==
    Frame(<<"response.", "function_call_arguments.delta">>, "delta" :> text)

\* the provider puts the response object, not a finish_reason, in the event
ResponseCompletedB == Frame(<<"response.completed">>, "id" :> <<"resp_1">>)

ResponseIncomplete ==
    Frame(<<"response.incomplete">>, "reason" :> <<"max_output_tokens">>)

\* the event the translator's test feeds: finish_reason and usage at the top
ResponseCompletedWith(reason, p, c, t) ==
    Frame(<<"response.completed">>,
          ("finish_reason" :> reason) @@ ("usage.prompt_tokens" :> p)
          @@ ("usage.completion_tokens" :> c) @@ ("usage.total_tokens" :> t))

ResponseCompletedNested(p, c, t) ==
    Frame(<<"response.completed">>,
          ("response.usage.prompt_tokens" :> p)
          @@ ("response.usage.completion_tokens" :> c)
          @@ ("response.usage.total_tokens" :> t))

ResponseCreated == Frame(<<"response.created">>, "id" :> <<"resp_1">>)

Hello == <<"Hello">>
World == <<" world!">>

\* the frames an upstream of each variant may write
Pool(v) ==
    IF v = "a"
    THEN {MessageStart, TextDeltaA(Hello), TextDeltaA(World),
          MessageDeltaA(<<"end_turn">>), BlockStart(0, <<"thinking">>), BlockStop(0)}
    ELSE IF v = "b"
    THEN {SummaryPartAdded, SummaryTextDelta(<<"hmm">>), OutputTextDelta(Hello),
          FunctionCallArgumentsDelta(<<"{city">>), ResponseCompletedB, ResponseIncomplete}
    ELSE {ResponseCreated, OutputTextDelta(Hello), OutputTextDelta(World),
          ResponseCompletedWith(<<"stop">>, 1, 2, 3), ResponseCompletedNested(4, 5, 9)}

\* the upstream writes one whole frame and the read resolves with its bytes
Deliver ==
    \E f \in Pool(variant) :
        /\ Len(sent) < MaxFrames
        /\ Read(Wire(f))
        /\ sent' = Append(sent, f)
        /\ UNCHANGED <<cut, splits>>

Next == Deliver \/ ReadDone \/ ReadFail

Spec == Init /\ [][Next]_vars

\* ---- an upstream of variant (a) that writes thinking blocks ------------
ThinkingPool ==
    {BlockStart(0, <<"thinking">>), ThinkingDeltaA(0, <<"hmm">>),
     SignatureDelta(0, <<"x">>), SignatureDelta(0, <<"y">>),
     SignatureDelta(1, <<"z">>), BlockStop(0)}

InitThinking == InitOf({"a"})

DeliverThinking ==
    \E f \in ThinkingPool :
        /\ Len(sent) < MaxThinkingFrames
        /\ Read(Wire(f))
        /\ sent' = Append(sent, f)
        /\ UNCHANGED <<cut, splits>>

NextThinking == DeliverThinking \/ ReadDone \/ ReadFail

SpecThinking == InitThinking /\ [][NextThinking]_vars

\* ---- an upstream whose reads end anywhere ------------------------------
Cafe == <<"caf", EAcute>>

ChunkPool(v) ==
    IF v = "a"
    THEN {MessageStart, TextDeltaA(Cafe), MessageDeltaA(<<"end_turn">>)}
    ELSE IF v = "b"
    THEN {SummaryTextDelta(<<EAcute>>), OutputTextDelta(Cafe), ResponseCompletedB}
    ELSE {ResponseCreated, OutputTextDelta(Cafe), ResponseCompletedWith(<<"stop">>, 1, 2, 3)}

\* the frames the upstream starts to write before the next read resolves
NewFrames(v) ==
    {<<>>} \cup {<<f>> : f \in ChunkPool(v)}
           \cup {<<f, g>> : f \in ChunkPool(v), g \in ChunkPool(v)}

RECURSIVE WireAll(_)
WireAll(fs) == IF fs = <<>> THEN <<>> ELSE Wire(Head(fs)) \o WireAll(Tail(fs))

\* where a chunk ends when byte k is its last and more bytes of the frame follow
SplitKind(bytes, k) ==
    IF bytes[k] = LeadByte THEN "codepoint"
    ELSE IF bytes[k] = NL /\ bytes[k + 1] = NL THEN "delimiter"
    ELSE "line"

\* the read resolves with the bytes written so far: what was left of the frame
\* in part, the new frames, the last of them whole or in part
DeliverChunk ==
    \E fs \in NewFrames(variant) :
        LET inFlight == (IF cut = <<>> THEN <<>> ELSE <<cut[1].frame>>) \o fs
            bytes == (IF cut = <<>> THEN <<>> ELSE cut[1].rest) \o WireAll(fs)
            lastStart == IF fs = <<>> THEN 0
                         ELSE Len(bytes) - Len(Wire(fs[Len(fs)]))
        IN  /\ inFlight # <<>>
            /\ Len(sent) + Len(inFlight) <= MaxChunkedFrames
            /\ \E k \in (lastStart + 1)..Len(bytes) :
                /\ Read(SubSeq(bytes, 1, k))
                /\ IF k = Len(bytes)
                   THEN /\ sent' = sent \o inFlight
                        /\ cut' = <<>>
                        /\ splits' = splits
                   ELSE /\ sent' = sent \o SubSeq(inFlight, 1, Len(inFlight) - 1)
                        /\ cut' = <<[frame |-> inFlight[Len(inFlight)],
                                     rest  |-> SubSeq(bytes, k + 1, Len(bytes))]>>
                        /\ splits' = splits \cup {SplitKind(bytes, k)}

NextChunked == DeliverChunk \/ ReadDone \/ ReadFail

SpecChunked == Init /\ [][NextChunked]_vars

(***************************************************************************)
(* Reading the output                                                      *)
(***************************************************************************)
IsChunk(f) == "object" \in DOMAIN f.data /\ f.data.object = "chat.completion.chunk"
IsRole(f) == IsChunk(f) /\ "role" \in DOMAIN f.data.delta
IsContent(f) == IsChunk(f) /\ "content" \in DOMAIN f.data.delta
IsFinish(f) == IsChunk(f) /\ f.data.finish_reason # "null"
IsDone(f) == f.data = DONE
IsUsageSummary(f) == "object" \in DOMAIN f.data /\ f.data.object = "usage.summary"
IsError(f) == "error" \in DOMAIN f.data
ThinkingTypes == {"oai.thinking.delta", "oai.thinking.part.added",
                  "oai.thinking.part.done", "oai.thinking.done"}
IsThinking(f) == "type" \in DOMAIN f.data /\ f.data.type \in ThinkingTypes

Positions(P(_)) == {i \in DOMAIN out : P(out[i])}
Count(P(_)) == Cardinality(Positions(P))
LastOut == out[Len(out)]

(***************************************************************************)
(* Claims about the terminal frames                                        *)
(***************************************************************************)

\* C1: in variants (a) and (b), on end-of-stream and on a read failure alike,
\* the output holds [DONE] exactly once, as its last frame, and the stream is
\* closed right after it; while the stream is open no [DONE] has been written.
C1_DoneOnceAndLast ==
    variant \in {"a", "b"} =>
        /\ pump # "reading" <=> stream = "closed"
        /\ stream = "readable" => Count(IsDone) = 0
        /\ stream = "closed" => /\ Count(IsDone) = 1
                                /\ IsDone(LastOut)

C1_Witness ==
    /\ variant = "b"
    /\ pump = "failed"
    /\ Len(sent) >= 2
    /\ Count(IsContent) >= 1
    /\ IsDone(LastOut)

\* C2: in variant (c), on end-of-stream and on a read failure alike, the output
\* holds [DONE] exactly once, immediately followed by exactly one usage.summary
\* frame carrying the usage total, which is the last frame; then the stream closes.
C2_DoneThenUsageSummary ==
    variant = "c" =>
        /\ pump # "reading" <=> stream = "closed"
        /\ stream = "readable" => Count(IsDone) = 0 /\ Count(IsUsageSummary) = 0
        /\ stream = "closed" =>
            /\ Count(IsDone) = 1
            /\ Count(IsUsageSummary) = 1
            /\ Len(out) >= 2
            /\ IsDone(out[Len(out) - 1])
            /\ LastOut = UsageSummary(usage)

C2_Witness ==
    /\ variant = "c"
    /\ pump = "failed"
    /\ Len(sent) >= 2
    /\ usage # ZeroUsage
    /\ IsUsageSummary(LastOut)

\* C3: in all three variants, when the upstream read fails the output holds
\* exactly one error frame (the canonical envelope, type server_error), it
\* stands immediately before [DONE], and the stream is closed, not errored.
C3_ErrorFrameBeforeDone ==
    pump = "failed" =>
        /\ stream = "closed"
        /\ Count(IsError) = 1
        /\ \E i \in DOMAIN out :
            /\ i > 1
            /\ IsDone(out[i])
            /\ IsError(out[i - 1])
            /\ out[i - 1].data.error.type = "server_error"

\* the same statement for the two translators of sse.ts only
ErrorFrameBeforeDoneAB == variant \in {"a", "b"} => C3_ErrorFrameBeforeDone

(***************************************************************************)
(* Claims about the role announcement                                      *)
(***************************************************************************)

\* C4: in every variant the role chunk is written exactly once and before
\* every content chunk and every thinking frame.
C4_RoleBeforeContentAndThinking ==
    /\ Count(IsRole) <= 1
    /\ \A i \in DOMAIN out :
        IsContent(out[i]) \/ IsThinking(out[i]) =>
            \E j \in 1..(i - 1) : IsRole(out[j])

\* C5: in every variant the first frame of the output is the role chunk, and
\* there is exactly one: no finish chunk, thinking frame or [DONE] precedes it.
C5_RoleIsFirstFrame ==
    /\ Count(IsRole) <= 1
    /\ out # <<>> => IsRole(out[1])

(***************************************************************************)
(* Claims about the content                                                *)
(***************************************************************************)
IsTextDeltaA(f) ==
    /\ f.ev = <<"content_block_delta">>
    /\ Str(f.data, "delta.type") = <<"text_delta">>
    /\ Str(f.data, "delta.text") # <<>>

\* message_start, text deltas t1..tk, message_delta(end_turn)
IsRoundTripUpstream(fs) ==
    /\ Len(fs) >= 2
    /\ fs[1] = MessageStart
    /\ fs[Len(fs)] = MessageDeltaA(<<"end_turn">>)
    /\ \A i \in 2..(Len(fs) - 1) : IsTextDeltaA(fs[i])

RoundTripOutput(fs) ==
    <<RoleChunk>>
    \o [i \in 1..(Len(fs) - 2) |-> ContentChunk(fs[i + 1].data["delta.text"])]
    \o <<FinishChunk("stop"), encodeDataLine(DONE)>>

\* C7: variant (a) turns message_start, text deltas t1..tk, message_delta with
\* end_turn and end-of-stream into exactly: role chunk, content chunks t1..tk
\* in order, one finish chunk "stop", [DONE].
C7_RoundTrip ==
    variant = "a" /\ pump = "stopped" /\ IsRoundTripUpstream(sent) =>
        out = RoundTripOutput(sent)

C7_Witness ==
    /\ variant = "a"
    /\ pump = "stopped"
    /\ sent = <<MessageStart, TextDeltaA(Hello), TextDeltaA(World),
                MessageDeltaA(<<"end_turn">>)>>
    /\ Len(out) = 5

\* the text a frame carries as a text delta of its protocol; <<>> when it is
\* no text delta
TextDeltaOf(v, f) ==
    IF v = "a"
    THEN IF f.ev = <<"content_block_delta">>
            /\ Str(f.data, "delta.type") = <<"text_delta">>
         THEN Str(f.data, "delta.text") ELSE <<>>
    ELSE IF f.ev = <<"response.", "output_text.delta">>
         THEN Str(f.data, "delta") ELSE <<>>

RECURSIVE TextDeltas(_, _)
TextDeltas(v, fs) ==
    IF fs = <<>> THEN <<>>
    ELSE (IF TextDeltaOf(v, Head(fs)) # <<>> THEN <<TextDeltaOf(v, Head(fs))>> ELSE <<>>)
         \o TextDeltas(v, Tail(fs))

RECURSIVE Contents(_)
Contents(o) ==
    IF o = <<>> THEN <<>>
    ELSE (IF IsContent(Head(o)) THEN <<Head(o).data.delta.content>> ELSE <<>>)
         \o Contents(Tail(o))

\* C8: in every variant the content strings of the output are, in order, the
\* non-empty text-delta payloads of the frames the upstream has completed.
C8_ContentIsTextDeltas == Contents(out) = TextDeltas(variant, sent)

\* the same statement for variants (a) and (c) only
ContentIsTextDeltasAC == variant \in {"a", "c"} => C8_ContentIsTextDeltas

\* C9: in variant (c), when the upstream completes (its last event is
\* response.completed) and ends, the output ends with a chat chunk whose
\* finish_reason is "stop" or "length", then [DONE], then the usage summary.
C9_FinalChunkHasFinishReason ==
    /\ variant = "c"
    /\ pump = "stopped"
    /\ sent # <<>>
    /\ sent[Len(sent)].ev = <<"response.completed">>
    => /\ Len(out) >= 3
       /\ IsChunk(out[Len(out) - 2])
       /\ out[Len(out) - 2].data.finish_reason \in {"stop", "length"}
       /\ IsDone(out[Len(out) - 1])
       /\ IsUsageSummary(LastOut)

(***************************************************************************)
(* Claims about the frame reader                                           *)
(***************************************************************************)
\* the event a complete frame is: its name and its data
EventsOf(fs) == [i \in DOMAIN fs |-> [event |-> fs[i].ev, data |-> fs[i].data]]

\* what the reader yields when the bytes arrive in a single chunk
SingleChunkEvents(v, bytes) == OnChunk(v, InitialState, <<>>, <<>>, bytes).events

\* C6: however the bytes are split into chunks (inside the delimiter, inside a
\* line, inside a code point), the reader has yielded one event for each
\* complete frame, in order and with the frame's data, and these are the events
\* it yields when the same bytes arrive in a single chunk.
C6_ChunkingInvariance ==
    /\ events = EventsOf(sent)
    /\ events = SingleChunkEvents(variant, recv)

C6_Witness ==
    /\ splits = {"codepoint", "delimiter", "line"}
    /\ Len(events) >= 2
    /\ cut = <<>>
    /\ \E i \in DOMAIN events : Str(events[i].data, "delta") = Cafe

(***************************************************************************)
(* Claims about thinking blocks                                            *)
(***************************************************************************)
IsSignatureDelta(f, idx) ==
    /\ f.ev = <<"content_block_delta">>
    /\ Str(f.data, "delta.type") = <<"signature_delta">>
    /\ Has(f.data, "index") /\ f.data["index"] = idx

\* position of the content_block_start that opened the thinking block which
\* the content_block_stop at position n closes; 0 when it closes none
RECURSIVE OpenedAt(_, _, _)
OpenedAt(fs, n, i) ==
    IF i = 0 THEN 0
    ELSE IF fs[i].ev = <<"content_block_stop">>
            /\ Has(fs[i].data, "index") /\ fs[i].data["index"] = fs[n].data["index"]
         THEN 0
    ELSE IF fs[i].ev = <<"content_block_start">>
            /\ Has(fs[i].data, "index") /\ fs[i].data["index"] = fs[n].data["index"]
         THEN IF Str(fs[i].data, "content_block.type") = <<"thinking">> THEN i ELSE 0
    ELSE OpenedAt(fs, n, i - 1)

\* the signature deltas for index idx at positions from..to, concatenated
RECURSIVE SignatureBetween(_, _, _, _)
SignatureBetween(fs, idx, from, to) ==
    IF from > to THEN <<>>
    ELSE (IF IsSignatureDelta(fs[from], idx)
          THEN fs[from].data["delta.signature"] ELSE <<>>)
         \o SignatureBetween(fs, idx, from + 1, to)

\* the thinking frames the upstream frames call for, in order
RECURSIVE ExpectedThinking(_, _)
ExpectedThinking(fs, n) ==
    IF n = 0 THEN <<>>
    ELSE ExpectedThinking(fs, n - 1) \o
         (IF fs[n].ev = <<"content_block_delta">>
             /\ Str(fs[n].data, "delta.type") = <<"thinking_delta">>
          THEN <<ThinkingFrame("oai.thinking.delta", fs[n].data["delta.thinking"], <<>>)>>
          ELSE IF fs[n].ev = <<"content_block_stop">> /\ OpenedAt(fs, n, n - 1) > 0
          THEN <<ThinkingFrame("oai.thinking.done", <<>>,
                               SignatureBetween(fs, fs[n].data["index"],
                                                OpenedAt(fs, n, n - 1), n))>>
          ELSE <<>>)

ThinkingOut == SelectSeq(out, IsThinking)

\* C10: in variant (a) every thinking_delta yields a thinking-delta frame and
\* every content_block_stop of an open thinking block a thinking-done frame, in
\* upstream order; the signature of the done frame is the concatenation, in
\* arrival order, of the signature deltas received for that index since the
\* block was opened (empty when there were none).
C10_SignatureReconstruction == ThinkingOut = ExpectedThinking(sent, Len(sent))

C10_Witness ==
    /\ sent = <<BlockStart(0, <<"thinking">>), SignatureDelta(0, <<"x">>),
                SignatureDelta(0, <<"y">>), ThinkingDeltaA(0, <<"hmm">>), BlockStop(0)>>
    /\ ThinkingOut = <<ThinkingFrame("oai.thinking.delta", <<"hmm">>, <<>>),
                       ThinkingFrame("oai.thinking.done", <<>>, <<"x", "y">>)>>

(***************************************************************************)
(* ToolTurn (src/unnamed/part_000): the ledger of one create call           *)
(***************************************************************************)
MaxCap == 3             \* the largest cap a ToolTurn is constructed with
MaxIncrements == 6      \* incrementRoundOrThrow calls made on one ToolTurn
MaxPending == 2         \* tool calls queued at once

Max(a, b) == IF a > b THEN a ELSE b

\* the default of the constructor's parameter
DefaultMaxRounds == 4

\* the constructor; `arg` is <<>> when the caller passes nothing, <<c>> otherwise
NewToolTurn(arg) ==
    [maxRounds |-> Max(1, IF arg = <<>> THEN DefaultMaxRounds ELSE arg[1]),
     rounds |-> 0,
     previousResponseId |-> Null,
     pendingCalls |-> <<>>]

ToolTurn == [maxRounds |-> maxRounds, rounds |-> rounds,
             previousResponseId |-> previousResponseId,
             pendingCalls |-> pendingCalls]

SetToolTurn(t) ==
    /\ maxRounds' = t.maxRounds
    /\ rounds' = t.rounds
    /\ previousResponseId' = t.previousResponseId
    /\ pendingCalls' = t.pendingCalls

\* a ledger that refuses the round that reaches the cap
incrementRoundOrThrowAtCap(t) ==
    [turn |-> [t EXCEPT !.rounds = @ + 1], threw |-> t.rounds + 1 >= t.maxRounds]

\* a ledger that allows one round more than the cap
incrementRoundOrThrowLate(t) ==
    [turn |-> [t EXCEPT !.rounds = @ + 1], threw |-> t.rounds + 1 > t.maxRounds + 1]

\* a ledger that starts over once it has refused a round
incrementRoundOrThrowReset(t) ==
    IF t.rounds + 1 > t.maxRounds
    THEN [turn |-> [t EXCEPT !.rounds = 0], threw |-> TRUE]
    ELSE [turn |-> [t EXCEPT !.rounds = @ + 1], threw |-> FALSE]

\* [turn, threw]: the ledger after the call, and whether the call threw
incrementRoundOrThrow(t) ==
    [turn |-> [t EXCEPT !.rounds = @ + 1], threw |-> t.rounds + 1 > t.maxRounds]

setPreviousResponseId(t, id) == [t EXCEPT !.previousResponseId = id]

addToolCall(t, call) == [t EXCEPT !.pendingCalls = Append(@, call)]

\* [turn, call]: shift() ?? null
nextCall(t) ==
    IF t.pendingCalls = <<>> THEN [turn |-> t, call |-> Null]
    ELSE [turn |-> [t EXCEPT !.pendingCalls = Tail(@)], call |-> Head(t.pendingCalls)]

ToolCall(call_id, name, arguments_json) ==
    [call_id |-> call_id, name |-> name, arguments_json |-> arguments_json]

\* ---- a caller that uses one ToolTurn freely ------------------------------
Caps == {<<>>} \cup {<<c>> : c \in -1..MaxCap}
ResponseIds == {"resp_1", "resp_2"}
Calls == {ToolCall("call_1", "get_weather", "{city}"),
          ToolCall("call_2", "get_time", "{}")}

InitToolTurn ==
    /\ NoStream
    /\ NoPeer
    /\ NoMapper
    /\ NoService
    /\ NoError
    /\ configured \in Caps
    /\ LET t == NewToolTurn(configured) IN
        /\ maxRounds = t.maxRounds
        /\ rounds = t.rounds
        /\ previousResponseId = t.previousResponseId
        /\ pendingCalls = t.pendingCalls
    /\ outcomes = <<>>

IncrementRoundOrThrow ==
    /\ Len(outcomes) < MaxIncrements
    /\ LET r == incrementRoundOrThrow(ToolTurn) IN
        /\ SetToolTurn(r.turn)
        /\ outcomes' = Append(outcomes, IF r.threw THEN "threw" ELSE "ok")
    /\ UNCHANGED <<configured, streamVars, serviceVars, errorVars, peerVars, mapperVars>>

SetPreviousResponseId ==
    \E id \in ResponseIds :
        /\ SetToolTurn(setPreviousResponseId(ToolTurn, id))
        /\ UNCHANGED <<configured, outcomes, streamVars, serviceVars, errorVars, peerVars, mapperVars>>

AddToolCall ==
    \E call \in Calls :
        /\ Len(pendingCalls) < MaxPending
        /\ SetToolTurn(addToolCall(ToolTurn, call))
        /\ UNCHANGED <<configured, outcomes, streamVars, serviceVars, errorVars, peerVars, mapperVars>>

NextCall ==
    /\ SetToolTurn(nextCall(ToolTurn).turn)
    /\ UNCHANGED <<configured, outcomes, streamVars, serviceVars, errorVars, peerVars, mapperVars>>

NextToolTurn ==
    IncrementRoundOrThrow \/ SetPreviousResponseId \/ AddToolCall \/ NextCall

SpecToolTurn == InitToolTurn /\ [][NextToolTurn]_vars

(***************************************************************************)
(* C11: a ToolTurn constructed with cap c has maxRounds = max(1, c); the   *)
(* first maxRounds calls of incrementRoundOrThrow succeed and call         *)
(* maxRounds + 1 throws.                                                   *)
(***************************************************************************)
C11_RoundLedger ==
    /\ configured # <<>> => maxRounds = Max(1, configured[1])
    /\ \A i \in DOMAIN outcomes :
        /\ i <= maxRounds => outcomes[i] = "ok"
        /\ i = maxRounds + 1 => outcomes[i] = "threw"

\* a cap below 1 was clamped to 1: the first call succeeded, the second threw
C11_Witness ==
    /\ configured = <<0>>
    /\ maxRounds = 1
    /\ outcomes = <<"ok", "threw">>

(***************************************************************************)
(* ReasoningService (src/README.md) and the request builders               *)
(* (src/tests/e2e-openai-responses-reasoning.test.ts).  A JSON value of    *)
(* the orchestrator is a record holding the members that are present; a    *)
(* name or an id is a plain string, a text a sequence of pieces.           *)
(***************************************************************************)
MaxToolRounds == 2      \* the largest maxToolRounds a service is constructed with

\* obj?.k ?? default
Field(obj, k, default) == IF k \in DOMAIN obj THEN obj[k] ELSE default

\* json?.output ?? json?.response?.output ?? []
OutputOf(json) ==
    IF "output" \in DOMAIN json THEN json.output
    ELSE Field(Field(json, "response", EmptyObject), "output", <<>>)

\* the arguments of a call: [kind |-> "string", text] or [kind |-> "object", json],
\* the latter standing for a value JSON.stringify turns into `json`
NoArguments == [kind |-> "string", text |-> ""]

ArgumentsJson(pickedArgs) ==
    IF pickedArgs.kind = "string" THEN pickedArgs.text ELSE pickedArgs.json

\* the call one output item describes, <<>> when it describes none
ExtractToolCall(item) ==
    IF Field(item, "type", "") \notin {"tool_call", "function_call"} THEN <<>>
    ELSE LET c == IF "tool_call" \in DOMAIN item THEN item.tool_call
                  ELSE IF "function_call" \in DOMAIN item THEN item.function_call
                  ELSE item
             fn == Field(c, "function", EmptyObject)
             call_id == IF "id" \in DOMAIN c THEN c.id ELSE Field(item, "id", "")
             name == IF "name" \in DOMAIN fn THEN fn.name ELSE Field(c, "name", "")
             pickedArgs == IF "arguments" \in DOMAIN c THEN c.arguments
                           ELSE Field(fn, "arguments", NoArguments)
         IN  IF name # "" /\ call_id # ""
             THEN <<ToolCall(call_id, name, ArgumentsJson(pickedArgs))>>
             ELSE <<>>

RECURSIVE ExtractToolCalls(_)
ExtractToolCalls(items) ==
    IF items = <<>> THEN <<>>
    ELSE ExtractToolCall(Head(items)) \o ExtractToolCalls(Tail(items))

extractToolCallsFromResponse(json) == ExtractToolCalls(OutputOf(json))

\* it?.content?.[0]?.text ?? it?.text ?? it?.content ?? "", when it is a string.
\* content is [kind |-> "parts", parts |-> <<part, ...>>] or [kind |-> "string", text]
ItemText(it) ==
    LET content == Field(it, "content", [kind |-> "none"])
        first == IF content.kind = "parts" /\ content.parts # <<>>
                 THEN content.parts[1] ELSE EmptyObject
    IN  IF Field(it, "type", "") \notin {"output_text", "message", "text"} THEN <<>>
        ELSE IF "text" \in DOMAIN first THEN first.text
        ELSE IF "text" \in DOMAIN it THEN it.text
        ELSE IF content.kind = "string" THEN content.text
        ELSE <<>>

RECURSIVE CollectText(_)
CollectText(items) ==
    IF items = <<>> THEN <<>> ELSE ItemText(Head(items)) \o CollectText(Tail(items))

\* an extraction that reports every final response as stopped
collectTextFromResponseStop(json) ==
    [fullText |-> CollectText(OutputOf(json)), finish |-> "stop"]

collectTextFromResponse(json) ==
    LET fr == IF "finish_reason" \in DOMAIN json THEN json.finish_reason
              ELSE Field(Field(json, "response", EmptyObject), "finish_reason", Null)
    IN  [fullText |-> CollectText(OutputOf(json)),
         finish |-> IF fr = "stop" THEN "stop"
                    ELSE IF fr \in {"length", "max_output_tokens"} THEN "length"
                    ELSE Null]

\* the input of the request: user and assistant messages, the others dropped
MapMessage(m) ==
    IF m.role = "user"
    THEN <<[role |-> "user", content |-> <<[type |-> "input_text", text |-> m.content]>>]>>
    ELSE IF m.role = "assistant"
    THEN <<[role |-> "assistant", content |-> <<[type |-> "text", text |-> m.content]>>]>>
    ELSE <<>>

RECURSIVE MapMessages(_)
MapMessages(ms) ==
    IF ms = <<>> THEN <<>> ELSE MapMessage(Head(ms)) \o MapMessages(Tail(ms))

RECURSIVE MapTools(_)
MapTools(ts) ==
    IF ts = <<>> THEN <<>>
    ELSE LET t == Head(ts)
             fn == Field(t, "function", EmptyObject)
             name == IF "name" \in DOMAIN fn THEN fn.name ELSE Field(t, "name", "")
         IN  (IF (Field(t, "type", "") = "function" \/ "function" \in DOMAIN t) /\ name # ""
              THEN <<[type |-> "function", function |-> [name |-> name]]>>
              ELSE <<>>) \o MapTools(Tail(ts))

Member1(k, present, v) == IF present THEN k :> v ELSE EmptyObject

\* the clamp of the orchestrator's builder; a number that is absent or null
\* stays absent (the caller below), the others are brought into min..max
clampResponses(num, min, max) ==
    IF num < min THEN min ELSE IF num > max THEN max ELSE num

\* `(typeof a === "number" && a) || (typeof b === "number" && b) || undefined`:
\* <<>> or the first of the two that is a number other than 0
FirstTruthy(r, a, b) ==
    IF a \in DOMAIN r /\ r[a] # 0 THEN <<r[a]>>
    ELSE IF b \in DOMAIN r /\ r[b] # 0 THEN <<r[b]>>
    ELSE <<>>

buildResponsesPayload(r) ==
    LET tools == MapTools(Field(r, "tools", <<>>))
        max_output_tokens == FirstTruthy(r, "max_completion_tokens", "max_tokens")
    IN
    [model |-> r.model, input |-> MapMessages(r.messages),
     stream |-> IF "stream" \in DOMAIN r THEN r.stream ELSE TRUE]
    @@ Member1("instructions", Field(r, "system", <<>>) # <<>>, Field(r, "system", <<>>))
    @@ Member1("temperature", "temperature" \in DOMAIN r,
               clampResponses(Field(r, "temperature", 0), 0, 2))
    @@ Member1("top_p", "top_p" \in DOMAIN r, clampResponses(Field(r, "top_p", 0), 0, 1))
    @@ Member1("max_output_tokens", max_output_tokens # <<>>,
               IF max_output_tokens # <<>> THEN max_output_tokens[1] ELSE 0)
    @@ Member1("stop", Field(r, "stop", <<>>) # <<>>, Field(r, "stop", <<>>))
    @@ Member1("tools", tools # <<>>, tools)
    @@ Member1("tool_choice", "tool_choice" \in DOMAIN r, Field(r, "tool_choice", Null))
    @@ Member1("reasoning", Field(r, "reasoning_effort", "") # "",
               [effort |-> Field(r, "reasoning_effort", "")])

\* a follow-up that answers with the output of an earlier call
buildToolOutputFollowUpStale(args) ==
    [model |-> args.model,
     previous_response_id |-> args.previous_response_id,
     input |-> <<[type |-> "function_call_output", call_id |-> args.callId,
                  output |-> "{}"]>>]

buildToolOutputFollowUp(args) ==
    [model |-> args.model,
     previous_response_id |-> args.previous_response_id,
     input |-> <<[type |-> "function_call_output", call_id |-> args.callId,
                  output |-> args.toolOutputJson]>>]

\* the constructor: `opts` holds the options the caller passes
NewService(opts) ==
    [toolExecutor |-> Field(opts, "toolExecutor", Null),
     maxToolRounds |-> Max(1, Field(opts, "maxToolRounds", DefaultMaxRounds))]

\* an update that adds the figures of every round
CreateUsageSummed(u0, json) ==
    LET u == Field(json, "usage", EmptyObject) IN
    IF "total_tokens" \in DOMAIN u
    THEN [prompt_tokens |-> u0.prompt_tokens + Field(u, "prompt_tokens", 0),
          completion_tokens |-> u0.completion_tokens + Field(u, "completion_tokens", 0),
          total_tokens |-> u0.total_tokens + u.total_tokens]
    ELSE u0

\* create's update of `usage` from the body's top-level usage
CreateUsage(u0, json) ==
    LET u == Field(json, "usage", EmptyObject) IN
    IF "total_tokens" \in DOMAIN u
    THEN [prompt_tokens |-> Field(u, "prompt_tokens", u0.prompt_tokens),
          completion_tokens |-> Field(u, "completion_tokens", u0.completion_tokens),
          total_tokens |-> u.total_tokens]
    ELSE u0

\* the legacy ChatCompletion object create returns (id and created left out)
ChatCompletion(model, content, finish, u) ==
    [object |-> "chat.completion", model |-> model,
     choices |-> <<[index |-> 0,
                    message |-> [role |-> "assistant", content |-> content],
                    finish_reason |-> finish]>>,
     usage |-> u]

Thrown(message) == [error |-> message]

\* create is called: everything up to the first fetch
Create ==
    /\ pc = "idle"
    /\ payload' = buildResponsesPayload(
                     [k \in DOMAIN req \cup {"stream"} |->
                         IF k = "stream" THEN FALSE ELSE req[k]])
    /\ lastResponseId' = Null
    /\ configured' = <<maxToolRounds>>
    /\ SetToolTurn(NewToolTurn(<<maxToolRounds>>))
    /\ outputText' = <<>>
    /\ finishReason' = Null
    /\ usageTotals' = ZeroUsage
    /\ pc' = "fetch"
    /\ UNCHANGED <<toolExecutor, maxToolRounds, req, currentCall, result, requests,
                   responses, executions, outcomes, streamVars, errorVars, peerVars, mapperVars>>

\* `!this.toolExecutor`, for a service that runs the loop without the check
MissingNever(executor) == FALSE

\* `!this.toolExecutor`
Missing(executor) == executor = Null

\* a loop that acts on the last call of a response
LastCall(toolCalls) == toolCalls[Len(toolCalls)]

\* `toolCalls[0]`
FirstCall(toolCalls) == toolCalls[1]

\* a failure after which the loop goes round again
ThrowAndRetry(message) ==
    /\ pc' = "fetch"
    /\ result' = Thrown(message)

\* the loop threw: nothing is returned
Throw(message) ==
    /\ pc' = "threw"
    /\ result' = Thrown(message)

\* the body of the loop from the parsed JSON body to the next await
OnJson(json) ==
    LET lastId == Field(json, "id", lastResponseId)
        u == CreateUsage(usageTotals, json)
        toolCalls == extractToolCallsFromResponse(json)
    IN  /\ lastResponseId' = lastId
        /\ usageTotals' = u
        /\ IF toolCalls # <<>>
           THEN IF Missing(toolExecutor)
                THEN /\ Throw("Tool call requested but no ToolExecutor is configured")
                     /\ UNCHANGED <<turnVars, currentCall, executions, outputText,
                                    finishReason>>
                ELSE LET r == incrementRoundOrThrow(ToolTurn) IN
                     IF r.threw
                     THEN /\ SetToolTurn(r.turn)
                          /\ outcomes' = Append(outcomes, "threw")
                          /\ Throw("Maximum number of tool rounds exceeded")
                          /\ UNCHANGED <<configured, currentCall, executions, outputText,
                                         finishReason>>
                     ELSE /\ SetToolTurn(setPreviousResponseId(
                                 r.turn, IF lastId = Null THEN "" ELSE lastId))
                          /\ outcomes' = Append(outcomes, "ok")
                          /\ currentCall' = FirstCall(toolCalls)
                          /\ executions' =
                                Append(executions,
                                       [name |-> FirstCall(toolCalls).name,
                                        arguments_json |->
                                            FirstCall(toolCalls).arguments_json,
                                        outcome |-> [kind |-> "pending"]])
                          /\ pc' = "execute"
                          /\ UNCHANGED <<configured, result, outputText, finishReason>>
           ELSE LET c == collectTextFromResponse(json)
                    finish == IF c.finish # Null THEN c.finish ELSE finishReason
                IN  /\ outputText' = outputText \o c.fullText
                    /\ finishReason' = finish
                    /\ pc' = "returned"
                    /\ result' = ChatCompletion(req.model, outputText \o c.fullText,
                                                finish, u)
                    /\ UNCHANGED <<turnVars, currentCall, executions>>

\* one turn of the loop: the request is issued and the upstream answers
\*   [kind |-> "rejects"]              fetch rejects
\*   [kind |-> "status", status, text] a response that is not ok
\*   [kind |-> "invalid"]              an ok response whose body is not JSON
\*   [kind |-> "json", json]           an ok response with a JSON body
Fetch(answer) ==
    /\ pc = "fetch"
    /\ requests' = Append(requests, payload)
    /\ responses' = Append(responses, answer)
    /\ IF answer.kind = "json" THEN OnJson(answer.json)
       ELSE /\ Throw(IF answer.kind = "rejects" THEN "Upstream request failed to start"
                     ELSE IF answer.kind = "invalid" THEN "SyntaxError"
                     ELSE IF answer.text # "" THEN answer.text
                     ELSE "Upstream error (status)")
            /\ UNCHANGED <<turnVars, lastResponseId, usageTotals, currentCall,
                           executions, outputText, finishReason>>
    /\ UNCHANGED <<toolExecutor, maxToolRounds, req, payload, streamVars, errorVars, peerVars, mapperVars>>

\* the executor's promise settles: [kind |-> "returned", output] or
\* [kind |-> "rejects"]
Execute(settled) ==
    /\ pc = "execute"
    /\ executions' = [executions EXCEPT ![Len(executions)].outcome = settled]
    /\ IF settled.kind = "returned"
       THEN /\ payload' = buildToolOutputFollowUp(
                    [previous_response_id |->
                         IF previousResponseId = Null THEN "" ELSE previousResponseId,
                     model |-> req.model,
                     callId |-> currentCall.call_id,
                     toolOutputJson |-> settled.output])
            /\ pc' = "fetch"
            /\ UNCHANGED result
       ELSE /\ Throw("executor failed")
            /\ UNCHANGED payload
    /\ UNCHANGED <<toolExecutor, maxToolRounds, req, lastResponseId, outputText,
                   finishReason, usageTotals, currentCall, requests, responses,
                   turnVars, streamVars, errorVars, peerVars, mapperVars>>

\* ---- createStream --------------------------------------------------------
\* the one frame of the error stream: `event: error\ndata: {"message": msg}\n\n`
ErrorEventFrame(msg) == [event |-> "error", data |-> [message |-> msg]]

\* a request that keeps its tool definitions
WithTools(r) ==
    [k \in DOMAIN r \cup {"tool_choice"} |-> IF k = "tool_choice" THEN "none" ELSE r[k]]

\* { ...req, tools: undefined } with tool_choice = "none"
WithoutTools(r) ==
    [k \in (DOMAIN r \ {"tools"}) \cup {"tool_choice"} |->
        IF k = "tool_choice" THEN "none" ELSE r[k]]

\* createStream is called and the upstream answers
\*   [kind |-> "rejects"]              fetch rejects
\*   [kind |-> "status", status, text] a response that is not ok or has no body
\*   [kind |-> "body"]                 an ok response; its body is read by (c)
CreateStream(answer) ==
    /\ pc = "idle"
    /\ requests' = Append(requests, buildResponsesPayload(WithoutTools(req)))
    /\ responses' = Append(responses, answer)
    /\ pc' = "streamed"
    /\ IF answer.kind = "body"
       THEN /\ pump' = "reading"
            /\ outstanding' = IssueRead(outstanding)
            /\ result' = [stream |-> "translated"]
            /\ UNCHANGED <<out, stream>>
       ELSE /\ out' = <<ErrorEventFrame(
                          IF answer.kind = "rejects"
                          THEN "Upstream request failed to start"
                          ELSE IF answer.text # "" THEN answer.text
                          ELSE "HTTP status")>>
            /\ stream' = "closed"
            /\ result' = [stream |-> "error"]
            /\ UNCHANGED <<pump, outstanding>>
    /\ UNCHANGED <<variant, buffered, carry, sentRole, finished, blockTypeByIndex,
                   signatureByIndex, usage, events, recv, sent, cut, splits>>
    /\ UNCHANGED <<toolExecutor, maxToolRounds, req, payload, lastResponseId,
                   outputText, finishReason, usageTotals, currentCall, executions,
                   turnVars, errorVars, peerVars, mapperVars>>

\* ---- the callers and the upstream of one service -------------------------
MaxBodyFrames == 2      \* frames the upstream writes into a streamed body

FunctionCallItem(id, name, arguments) ==
    [type |-> "function_call", id |-> id,
     function |-> [name |-> name, arguments |-> [kind |-> "string", text |-> arguments]]]

ToolCallItem(id, name, json) ==
    [type |-> "tool_call",
     tool_call |-> [id |-> id, name |-> name,
                    arguments |-> [kind |-> "object", json |-> json]]]

TextItem(text) == [type |-> "text", text |-> <<text>>]

MessageItem(text) ==
    [type |-> "message",
     content |-> [kind |-> "parts", parts |-> <<[type |-> "output_text", text |-> <<text>>]>>]]

Usage(p, c, t) == [prompt_tokens |-> p, completion_tokens |-> c, total_tokens |-> t]

\* the two bodies of the service's test
ToolRequest ==
    [id |-> "resp_1",
     output |-> <<FunctionCallItem("call_1", "get_weather", "{city:SF}")>>,
     usage |-> Usage(12, 0, 12)]

FinalText ==
    [id |-> "resp_2", output |-> <<TextItem("It is sunny.")>>,
     usage |-> Usage(12, 5, 17), finish_reason |-> "stop"]

\* a body that asks for two tools and carries a total only
TwoToolRequests ==
    [id |-> "resp_3",
     output |-> <<ToolCallItem("call_2", "get_time", "{}"),
                  FunctionCallItem("call_3", "get_weather", "{city:LA}")>>,
     usage |-> [total_tokens |-> 9]]

\* the second shape the extractors read: the response object inside `response`
NestedToolRequest ==
    [response |-> [id |-> "resp_4",
                   output |-> <<FunctionCallItem("call_4", "get_weather", "{city:NY}")>>]]

\* a final body whose usage carries no total
FinalMessage ==
    [id |-> "resp_5", output |-> <<MessageItem("Done"), TextItem("!")>>,
     usage |-> [prompt_tokens |-> 3],
     finish_reason |-> "max_output_tokens"]

Answers ==
    {[kind |-> "rejects"], [kind |-> "invalid"],
     [kind |-> "status", status |-> 500, text |-> "boom"],
     [kind |-> "status", status |-> 429, text |-> ""]}
    \cup {[kind |-> "json", json |-> b] :
            b \in {ToolRequest, TwoToolRequests, NestedToolRequest, FinalText,
                   FinalMessage}}

StreamAnswers ==
    {[kind |-> "rejects"], [kind |-> "body"],
     [kind |-> "status", status |-> 500, text |-> "boom"],
     [kind |-> "status", status |-> 429, text |-> ""]}

Settlements ==
    {[kind |-> "rejects"], [kind |-> "returned", output |-> "{tempF:72}"],
     [kind |-> "returned", output |-> "{}"]}

Message(role, content) == [role |-> role, content |-> <<content>>]

Requests ==
    {[model |-> "o4-mini", messages |-> <<Message("user", "Weather?")>>, stream |-> FALSE],
     [model |-> "o4-mini",
      messages |-> <<Message("system", "Be brief"), Message("user", "Weather?")>>,
      tools |-> <<[type |-> "function", function |-> [name |-> "get_weather"]]>>,
      tool_choice |-> "auto"]}

Options ==
    {Member1("toolExecutor", e, "executor") @@ o :
        e \in BOOLEAN,
        o \in {EmptyObject} \cup {"maxToolRounds" :> c : c \in 0..MaxToolRounds}}

InitService ==
    /\ NoStream
    /\ NoPeer
    /\ NoMapper
    /\ NoToolTurn
    /\ NoError
    /\ \E opts \in Options :
        /\ toolExecutor = NewService(opts).toolExecutor
        /\ maxToolRounds = NewService(opts).maxToolRounds
    /\ req \in Requests
    /\ payload = Nothing
    /\ lastResponseId = Null
    /\ outputText = <<>>
    /\ finishReason = Null
    /\ usageTotals = ZeroUsage
    /\ currentCall = Nothing
    /\ pc = "idle"
    /\ result = Nothing
    /\ requests = <<>>
    /\ responses = <<>>
    /\ executions = <<>>

\* the upstream writes one whole frame into the streamed body
DeliverBody ==
    \E f \in Pool("c") :
        /\ Len(sent) < MaxBodyFrames
        /\ Read(Wire(f))
        /\ sent' = Append(sent, f)
        /\ UNCHANGED <<cut, splits>>

NextService ==
    \/ Create
    \/ \E answer \in Answers : Fetch(answer)
    \/ \E settled \in Settlements : Execute(settled)
    \/ \E answer \in StreamAnswers : CreateStream(answer)
    \/ DeliverBody
    \/ ReadDone
    \/ ReadFail

SpecService == InitService /\ [][NextService]_vars

(***************************************************************************)
(* Reading the histories of one create call                                *)
(***************************************************************************)
InCreate == pc \in {"fetch", "execute", "returned", "threw"}

\* the calls extracted from answer i, <<>> when it was not a JSON body
CallsOf(i) ==
    IF responses[i].kind = "json" THEN extractToolCallsFromResponse(responses[i].json)
    ELSE <<>>

AsksForTool(i) == CallsOf(i) # <<>>

(***************************************************************************)
(* C12: in create the executor is invoked at most maxRounds times and at   *)
(* most maxRounds + 1 requests are issued; when the answer to request      *)
(* maxRounds + 1 still asks for a tool, create throws and returns nothing. *)
(***************************************************************************)
C12_RoundCap ==
    InCreate =>
        /\ maxRounds = Max(1, maxToolRounds)
        /\ Len(executions) <= maxRounds
        /\ Len(requests) <= maxRounds + 1
        /\ (Len(responses) = maxRounds + 1 /\ AsksForTool(maxRounds + 1))
              => /\ pc = "threw"
                 /\ result = Thrown("Maximum number of tool rounds exceeded")

\* two rounds were run and the third answer asks for a tool again
C12_Witness ==
    /\ pc = "threw"
    /\ maxRounds = 2
    /\ Len(executions) = 2
    /\ Len(responses) = 3
    /\ AsksForTool(3)

(***************************************************************************)
(* C13: when an answer asks for a tool and no executor is configured,      *)
(* create throws: no executor is invoked, no further request is issued,    *)
(* the round counter stays where it was and nothing is returned.           *)
(***************************************************************************)
C13_NoExecutorIsFatal ==
    (InCreate /\ toolExecutor = Null /\ \E i \in DOMAIN responses : AsksForTool(i))
        => /\ pc = "threw"
           /\ result = Thrown("Tool call requested but no ToolExecutor is configured")
           /\ executions = <<>>
           /\ rounds = 0
           /\ Len(requests) = Len(responses)
           /\ \A i \in DOMAIN responses : AsksForTool(i) => i = Len(responses)

C13_Witness ==
    /\ pc = "threw"
    /\ toolExecutor = Null
    /\ responses = <<[kind |-> "json", json |-> ToolRequest]>>

\* the follow-up item that answers call `c` with `output`
ToolOutputItem(c, output) ==
    [type |-> "function_call_output", call_id |-> c.call_id, output |-> output]

\* the id of the response in answer i, in either of the two shapes
ResponseId(i) ==
    LET json == responses[i].json IN
    IF "id" \in DOMAIN json THEN json.id
    ELSE Field(Field(json, "response", EmptyObject), "id", "")

\* the last id that answers 1..i carried at the top level, "" when none did
RECURSIVE LastTopLevelId(_)
LastTopLevelId(i) ==
    IF i = 0 THEN ""
    ELSE IF responses[i].kind = "json" /\ "id" \in DOMAIN responses[i].json
         THEN responses[i].json.id
    ELSE LastTopLevelId(i - 1)

(***************************************************************************)
(* C14: every follow-up request of create is exactly {model,               *)
(* previous_response_id, input: [one function_call_output item]}, where    *)
(* previous_response_id is the id of the response that asked for the call  *)
(* being answered, call_id the id of the executed call and output the      *)
(* string the executor returned for it.                                    *)
(***************************************************************************)
C14_ContinuationThreading ==
    InCreate =>
        \A k \in 2..Len(requests) :
            requests[k] =
                [model |-> req.model,
                 previous_response_id |-> ResponseId(k - 1),
                 input |-> <<ToolOutputItem(CallsOf(k - 1)[1],
                                            executions[k - 1].outcome.output)>>]

\* what the code threads: the last id read from the top level of a body
ContinuationThreadingTopLevel ==
    InCreate =>
        \A k \in 2..Len(requests) :
            requests[k] =
                [model |-> req.model,
                 previous_response_id |-> LastTopLevelId(k - 1),
                 input |-> <<ToolOutputItem(CallsOf(k - 1)[1],
                                            executions[k - 1].outcome.output)>>]

(***************************************************************************)
(* C15: in each tool round the executor is invoked exactly once, with the  *)
(* name and arguments_json of the first call extracted from the response;  *)
(* the other calls of the response are never executed and never answered.  *)
(***************************************************************************)
C15_FirstCallOnly ==
    InCreate =>
        /\ \A j \in DOMAIN executions :
            /\ AsksForTool(j)
            /\ executions[j].name = CallsOf(j)[1].name
            /\ executions[j].arguments_json = CallsOf(j)[1].arguments_json
        /\ \A k \in 2..Len(requests) :
            /\ Len(requests[k].input) = 1
            /\ requests[k].input[1].call_id = CallsOf(k - 1)[1].call_id
        /\ pc # "threw" =>
              Len(executions) = Cardinality({i \in DOMAIN responses : AsksForTool(i)})

\* a response with two calls was answered: only call_2 ran and was answered
C15_Witness ==
    /\ pc = "returned"
    /\ Len(requests) = 2
    /\ responses[1] = [kind |-> "json", json |-> TwoToolRequests]
    /\ Len(CallsOf(1)) = 2
    /\ executions[1].name = "get_time"
    /\ requests[2].input[1].call_id = "call_2"

Failed(answer) == answer.kind \in {"rejects", "status"}

(***************************************************************************)
(* C16: no upstream request is re-issued.  After a transport failure or a  *)
(* non-success status create throws, and once it has thrown it issues no   *)
(* request and invokes no executor; a request other than the first is      *)
(* issued only after a successful answer; createStream issues no second    *)
(* request; a translator whose read failed reads no more.                  *)
(***************************************************************************)
C16_NoRetries ==
    [][/\ (InCreate' /\ responses' # <<>> /\ Failed(responses'[Len(responses')]))
            => pc' = "threw"
       /\ pc = "threw" => UNCHANGED <<pc, requests, executions>>
       /\ (requests # <<>> /\ requests' # requests)
            => /\ pc = "fetch"
               /\ ~Failed(responses[Len(responses)])
               /\ Len(requests') = Len(requests) + 1
       /\ pc = "streamed" => (Len(requests) = 1 /\ requests' = requests)
       /\ pump = "failed" => UNCHANGED <<pump, recv, events>>]_vars

\* the second request of a create call was answered with a 500
C16_Witness ==
    /\ pc = "threw"
    /\ Len(requests) = 2
    /\ Len(executions) = 1
    /\ responses[2] = [kind |-> "status", status |-> 500, text |-> "boom"]

\* the state of a variant (c) translator that has read the frames fs, each
\* arriving whole, starting from st
RECURSIVE TranslateFrames(_, _)
TranslateFrames(st, fs) ==
    IF fs = <<>> THEN st
    ELSE TranslateFrames(OnChunk("c", st, <<>>, <<>>, Wire(Head(fs))).st, Tail(fs))

\* what variant (c) writes for the body frames received so far
TranslatedBody ==
    LET t == TranslateFrames(InitialState, sent) IN
    IF pump = "reading" THEN t.out ELSE emitDoneLegacy(t).out

(***************************************************************************)
(* C17: createStream issues exactly one request, built without the tool    *)
(* definitions.  When the call fails or the status is not a success it     *)
(* does not throw: it returns a stream of exactly one frame, event: error  *)
(* with a JSON message, already closed.  On success it returns the body    *)
(* translated by variant (c).                                              *)
(***************************************************************************)
C17_CreateStream ==
    pc = "streamed" =>
        /\ Len(requests) = 1
        /\ "tools" \notin DOMAIN requests[1]
        /\ requests[1].model = req.model
        /\ IF Failed(responses[1])
           THEN /\ Len(out) = 1
                /\ out[1].event = "error"
                /\ DOMAIN out[1].data = {"message"}
                /\ stream = "closed"
                /\ pump = "idle"
                /\ recv = <<>>
           ELSE /\ variant = "c"
                /\ pump # "idle"
                /\ recv = WireAll(sent)
                /\ out = TranslatedBody

\* a request with tools was refused with an empty body: one error frame
C17_Witness ==
    /\ pc = "streamed"
    /\ "tools" \in DOMAIN req
    /\ responses = <<[kind |-> "status", status |-> 429, text |-> ""]>>
    /\ out = <<ErrorEventFrame("HTTP status")>>
    /\ stream = "closed"

\* the executor was invoked only for answers that ask for a tool, at most once
\* between two requests, and had returned before the next request was issued
Alternation ==
    /\ Len(executions) <= Len(requests)
    /\ Len(requests) <= Len(executions) + 1
    /\ pc = "fetch" => Len(requests) = Len(executions)
    /\ pc = "execute" => Len(requests) = Len(executions)
    /\ \A j \in DOMAIN executions :
        /\ AsksForTool(j)
        /\ (j < Len(executions) \/ pc \in {"fetch", "returned"})
              => executions[j].outcome.kind = "returned"

\* k tool-requesting answers and then one without tool calls: the result
ReturnsFinal ==
    pc = "returned" =>
        LET k == Cardinality({i \in DOMAIN responses : AsksForTool(i)})
            final == responses[Len(responses)].json
        IN  /\ k <= maxRounds
            /\ \A i \in 1..k : AsksForTool(i)
            /\ Len(requests) = k + 1
            /\ Len(executions) = k
            /\ result.choices[1].message.role = "assistant"
            /\ result.choices[1].message.content = CollectText(OutputOf(final))
            /\ result.choices[1].finish_reason =
                  (IF "finish_reason" \notin DOMAIN final THEN Null
                   ELSE IF final.finish_reason = "stop" THEN "stop"
                   ELSE IF final.finish_reason \in {"length", "max_output_tokens"}
                        THEN "length"
                   ELSE Null)

(***************************************************************************)
(* C18: in create, upstream requests and executor invocations strictly     *)
(* alternate, beginning and ending with an upstream request; the executor  *)
(* is invoked only after a response with a tool call and before the next   *)
(* request.  When k <= maxRounds tool-requesting responses are followed by *)
(* one without tool calls, create returns after k + 1 requests and k       *)
(* invocations, with role assistant and the text and finish reason of      *)
(* that final response.                                                    *)
(***************************************************************************)
C18_ProtocolOrdering ==
    InCreate =>
        /\ Alternation
        /\ pc \in {"returned", "threw"} => Len(requests) = Len(executions) + 1
        /\ ReturnsFinal

\* C18 as amended: the sequence ends with a request unless it was the executor
\* that failed
C18_ProtocolOrderingAmended ==
    InCreate =>
        /\ Alternation
        /\ pc \in {"returned", "threw"} =>
              IF executions # <<>> /\ executions[Len(executions)].outcome.kind = "rejects"
              THEN Len(requests) = Len(executions) /\ pc = "threw"
              ELSE Len(requests) = Len(executions) + 1
        /\ ReturnsFinal

\* two tool rounds, then a final message that stopped at the token limit
C18_Witness ==
    /\ pc = "returned"
    /\ Len(requests) = 3
    /\ Len(executions) = 2
    /\ responses[3] = [kind |-> "json", json |-> FinalMessage]
    /\ result.choices[1].message.content = <<"Done", "!">>
    /\ result.choices[1].finish_reason = "length"

Figures == {"prompt_tokens", "completion_tokens", "total_tokens"}

\* the top-level usage object of answer i, the empty object when it has none
UsageOf(i) ==
    IF responses[i].kind = "json" THEN Field(responses[i].json, "usage", EmptyObject)
    ELSE EmptyObject

\* the last of `is`, 0 when there is none
Last(is) == IF is = {} THEN 0 ELSE CHOOSE i \in is : \A j \in is : j <= i

(***************************************************************************)
(* C19: the usage create returns is last-writer-wins, not a sum over the   *)
(* rounds: it equals the usage figures of the last upstream response that  *)
(* carried them, and is all zeros when no response carried any.            *)
(***************************************************************************)
C19_UsageLastWriterWins ==
    pc = "returned" =>
        LET i == Last({j \in DOMAIN responses : "total_tokens" \in DOMAIN UsageOf(j)}) IN
        result.usage = IF i = 0 THEN ZeroUsage
                       ELSE [f \in Figures |-> Field(UsageOf(i), f, 0)]

\* C19 as amended: a response writes only when its usage carries total_tokens,
\* and each figure is the one of the last writing response that carries it
C19_UsageLastWriterPerFigure ==
    pc = "returned" =>
        \A f \in Figures :
            LET i == Last({j \in DOMAIN responses :
                             {"total_tokens", f} \subseteq DOMAIN UsageOf(j)})
            IN  result.usage[f] = IF i = 0 THEN 0 ELSE UsageOf(i)[f]

\* a full usage, then a total only: the total is replaced, nothing is added
C19_Witness ==
    /\ pc = "returned"
    /\ Len(responses) = 3
    /\ UsageOf(1) = Usage(12, 0, 12)
    /\ UsageOf(2) = [total_tokens |-> 9]
    /\ UsageOf(3) = [prompt_tokens |-> 3]
    /\ result.usage = Usage(12, 0, 9)

(***************************************************************************)
(* A caller of normalizeError that feeds the status it got back in again   *)
(***************************************************************************)
MaxNormalizations == 2  \* calls of normalizeError on one upstream error

Statuses == 400..599

ErrorBodies ==
    {[kind |-> "json",
      obj |-> ("error.message" :> <<"limit">>) @@ ("error.type" :> "rate_limit_error")],
     [kind |-> "json",
      obj |-> ("type" :> "error") @@ ("error.message" :> <<"busy">>)
              @@ ("error.type" :> "overloaded_error")],
     [kind |-> "json",
      obj |-> ("type" :> "error") @@ ("error.message" :> <<"gone">>)
              @@ ("error.type" :> "not_found_error")],
     [kind |-> "string", text |-> <<"oops">>],
     \* {"message": "lost"}: no error member
     [kind |-> "json", obj |-> ("message" :> <<"lost">>)],
     \* {"type": "error", "error": {"type": "api_error", "message": 7}}: the
     \* message is not a string, so it is not among the string members
     [kind |-> "json", obj |-> ("type" :> "error") @@ ("error.type" :> "api_error")],
     \* null, a number, an array
     [kind |-> "other"]}

\* the error types of the two providers, and one that neither knows
ErrorTypes ==
    {"invalid_request_error", "authentication_error", "permission_error",
     "not_found_error", "request_too_large", "rate_limit_error", "overloaded_error",
     "api_error", "teapot_error"}

\* {"error": {"type": t, "message": "no"}}, and the same with "type": "error"
TypedBodies ==
    {[kind |-> "json", obj |-> shape @@ ("error.message" :> <<"no">>) @@ ("error.type" :> t)] :
        t \in ErrorTypes, shape \in {EmptyObject, "type" :> "error"}}

InitStatus ==
    /\ NoStream
    /\ NoPeer
    /\ NoMapper
    /\ NoToolTurn
    /\ NoService
    /\ errorIn \in [downstream : {"openai", "anthropic"}, status : Statuses,
                    body : ErrorBodies \cup TypedBodies]
    /\ errorOut = <<>>

\* the status of call n: the upstream's, then the one the call before returned
StatusIn(n) == IF n = 1 THEN errorIn.status ELSE errorOut[n - 1].status

Normalize ==
    /\ Len(errorOut) < MaxNormalizations
    /\ errorOut' = Append(errorOut,
                          normalizeError(errorIn.downstream, StatusIn(Len(errorOut) + 1),
                                         errorIn.body))
    /\ UNCHANGED <<errorIn, streamVars, turnVars, serviceVars, peerVars, mapperVars>>

NextStatus == Normalize

SpecStatus == InitStatus /\ [][NextStatus]_vars

\* the body is one of the shapes whose status is coerced: a structured error
\* of the provider, or a raw string
Structured ==
    /\ errorIn.body.kind = "json"
    /\ "error.message" \in DOMAIN errorIn.body.obj
    /\ errorIn.downstream = "anthropic" => Member(errorIn.body.obj, "type") = "error"

Coerced == Structured \/ errorIn.body.kind = "string"

\* provider A's extra rule applies
Overloaded ==
    /\ errorIn.downstream = "anthropic"
    /\ Structured
    /\ Member(errorIn.body.obj, "error.type") = "overloaded_error"

\* the table of spec 4.4
StatusTable(s) ==
    CASE s \in {404, 413} -> 400
      [] s \notin {404, 413} /\ (s = 529 \/ Overloaded) -> 503
      [] s \in (500..599) \ {500, 503, 529} /\ ~Overloaded -> 502
      [] OTHER -> s

(***************************************************************************)
(* C20: status coercion is total and idempotent for both providers: every  *)
(* status in 4xx and 5xx is mapped by the table 404 -> 400, 413 -> 400,    *)
(* 529 -> 503, any other 5xx except 500 and 503 -> 502, else unchanged     *)
(* (provider A: 503 for an overloaded error), so that 404, 413 and every   *)
(* 5xx end in {400, 500, 502, 503}; coercing a coerced status returns it   *)
(* unchanged.                                                              *)
(***************************************************************************)
C20_StatusCoercion ==
    Coerced =>
        \A n \in DOMAIN errorOut :
            /\ errorOut[n].status = StatusTable(StatusIn(n))
            /\ \/ errorOut[n].status \in {400, 500, 502, 503}
               \/ StatusIn(n) \in 400..499 /\ errorOut[n].status = StatusIn(n)
            /\ n > 1 => errorOut[n].status = errorOut[n - 1].status

\* the coercion both providers share, on its own
StatusCoercionShared ==
    (Coerced /\ ~Overloaded) =>
        \A n \in DOMAIN errorOut :
            /\ errorOut[n].status = StatusTable(StatusIn(n))
            /\ n > 1 => errorOut[n].status = errorOut[n - 1].status

(***************************************************************************)
(* C21: normalizeError never throws: for either provider and any upstream  *)
(* status, a body that is neither a structured error of the provider nor   *)
(* a raw string yields the fixed fallback: status 502, type server_error,  *)
(* param null, code normalization_failure.                                 *)
(***************************************************************************)
C21_FixedFallback ==
    ~Coerced =>
        \A n \in DOMAIN errorOut :
            /\ errorOut[n].status = 502
            /\ errorOut[n].body.error.type = "server_error"
            /\ errorOut[n].body.error.param = "null"
            /\ errorOut[n].body.error.code = "normalization_failure"
            /\ errorOut[n].body.error.message # <<>>

\* provider A was handed a body of provider B's shape with status 429
C21_Witness ==
    /\ errorIn.downstream = "anthropic"
    /\ errorIn.status = 429
    /\ errorIn.body.kind = "json"
    /\ "error.message" \in DOMAIN errorIn.body.obj
    /\ "type" \notin DOMAIN errorIn.body.obj
    /\ Len(errorOut) = 1
    /\ errorOut[1] = Fallback

\* the five types of the canonical taxonomy
CanonicalTypes ==
    {"invalid_request_error", "authentication_error", "permission_error",
     "rate_limit_error", "server_error"}

\* the canonical type of each type provider A is known to send
AnthropicTable ==
    ("invalid_request_error" :> "invalid_request_error")
    @@ ("authentication_error" :> "authentication_error")
    @@ ("permission_error" :> "permission_error")
    @@ ("not_found_error" :> "invalid_request_error")
    @@ ("request_too_large" :> "invalid_request_error")
    @@ ("rate_limit_error" :> "rate_limit_error")
    @@ ("overloaded_error" :> "server_error")
    @@ ("api_error" :> "server_error")

\* the type the upstream's structured error carries ("null": none)
UpstreamType == Member(errorIn.body.obj, "error.type")

(***************************************************************************)
(* C22: for every provider, status and body the type of the normalized     *)
(* error is one of the five canonical types.  A structured error of        *)
(* provider A with a known type gets the type of the fixed table, with any *)
(* other type server_error; one of provider B with one of the four types   *)
(* it shares with the taxonomy keeps it, with any other type server_error. *)
(***************************************************************************)
C22_CanonicalTaxonomy ==
    \A n \in DOMAIN errorOut :
        LET type == errorOut[n].body.error.type IN
        /\ type \in CanonicalTypes
        /\ (Structured /\ errorIn.downstream = "anthropic") =>
               type = IF UpstreamType \in DOMAIN AnthropicTable
                      THEN AnthropicTable[UpstreamType] ELSE "server_error"
        /\ (Structured /\ errorIn.downstream = "openai") =>
               type = IF UpstreamType \in CanonicalTypes \ {"server_error"}
                      THEN UpstreamType ELSE "server_error"

\* provider A's 404 for an unknown model: 400 invalid_request_error, not_found
C22_Witness ==
    /\ errorIn.downstream = "anthropic"
    /\ errorIn.status = 404
    /\ Structured
    /\ UpstreamType = "not_found_error"
    /\ Len(errorOut) = 1
    /\ errorOut[1].status = 400
    /\ errorOut[1].body.error.type = "invalid_request_error"
    /\ errorOut[1].body.error.code = "not_found"

\* the event names each translator has a branch for
Recognised(v, f) ==
    IF v = "a"
    THEN f.ev \in {<<"message_start">>, <<"content_block_start">>,
                   <<"content_block_delta">>, <<"content_block_stop">>,
                   <<"message_delta">>, <<"message_stop">>}
    ELSE IF v = "b"
    THEN \E pattern \in {"reasoning_summary_part.added", "reasoning_summary_part.done",
                         "reasoning_summary_text.delta", "reasoning_summary_text.done",
                         "output_text.delta", "response.completed",
                         "response.incomplete"} : Includes(f.ev, pattern)
    ELSE f.ev \in {<<"response.", "output_text.delta">>, <<"response.completed">>,
                   <<"rate_limits.updated">>}

\* the step reads one more frame, of an event the translator has no branch for
ReadsUnrecognised ==
    /\ Len(sent') = Len(sent) + 1
    /\ ~Recognised(variant, sent'[Len(sent')])

Ignored ==
    UNCHANGED <<out, sentRole, finished, blockTypeByIndex, signatureByIndex, usage>>

(***************************************************************************)
(* C23: in each of the three translators an upstream event whose type the  *)
(* translator does not recognise writes no output frame and changes no     *)
(* translator state (role flag, finished flag, per-block maps, usage       *)
(* total), whatever its data holds.                                        *)
(***************************************************************************)
C23_ForwardCompatibility == [][ReadsUnrecognised => Ignored]_vars

\* the same for the two translators that dispatch on the event name alone
ForwardCompatibilityAC ==
    [][(variant \in {"a", "c"} /\ ReadsUnrecognised) => Ignored]_vars

(***************************************************************************)
(* Cancellation.  The consumer cancels the translator's output stream: the *)
(* platform closes the stream and calls the underlying source's cancel(),  *)
(* which is `cancel() { // no-op }` in the three translators.  From then   *)
(* on controller.enqueue throws a TypeError.  A handler runs up to its     *)
(* first enqueue; the throw leaves the frame loop and is swallowed by the  *)
(* try/catch of the pump, which then issues the next reader.read().        *)
(***************************************************************************)
MaxCancelFrames == 3    \* frames an upstream writes to a stream that may be cancelled

EnqueueThrew(st) == [st |-> st, threw |-> TRUE]
Ran(st) == [st |-> st, threw |-> FALSE]

\* one event handled by variant (a) while enqueue throws
HandleAnthropicClosed(st, e) ==
    IF e.event = <<"message_start">>
    THEN IF ~st.sentRole THEN EnqueueThrew(st) ELSE Ran(st)
    ELSE IF e.event = <<"content_block_start">>
    THEN Ran(ContentBlockStart(st, e.data))
    ELSE IF e.event = <<"content_block_delta">>
    THEN IF ~st.sentRole THEN EnqueueThrew(st)
         ELSE \* the thinking part has a try/catch of its own
              LET st1 == [ThinkingDelta(st, e.data) EXCEPT !.out = st.out] IN
              IF Str(e.data, "delta.text") # <<>> THEN EnqueueThrew(st1) ELSE Ran(st1)
    ELSE IF e.event = <<"content_block_stop">>
    THEN IF /\ Has(e.data, "index")
            /\ MapGet(st.blockTypeByIndex, e.data["index"])
                   \in {<<"thinking">>, <<"redacted_thinking">>}
         THEN EnqueueThrew(st)
         ELSE Ran(ContentBlockStop(st, e.data))
    ELSE IF e.event = <<"message_delta">>
    THEN IF MessageDelta(st, e.data).out # st.out THEN EnqueueThrew(st) ELSE Ran(st)
    ELSE Ran(st)

\* variant (b) changes no state before its first enqueue
HandleResponsesClosed(st, e) ==
    IF HandleResponses(st, e).out # st.out THEN EnqueueThrew(st) ELSE Ran(st)

\* variant (c) sets sentRole and the usage total before it enqueues
HandleLegacyClosed(st, e) ==
    IF e.event = <<"response.", "output_text.delta">>
    THEN IF Str(e.data, "delta") # <<>>
         THEN EnqueueThrew([st EXCEPT !.sentRole = TRUE])
         ELSE Ran(st)
    ELSE IF e.event = <<"response.completed">>
    THEN EnqueueThrew([st EXCEPT !.usage = UsageUpdate(@, e.data)])
    ELSE IF e.event = <<"rate_limits.updated">>
    THEN Ran([st EXCEPT !.usage = UsageUpdate(@, e.data)])
    ELSE Ran(st)

HandleClosed(v, st, e) ==
    IF v = "a" THEN HandleAnthropicClosed(st, e)
    ELSE IF v = "b" THEN HandleResponsesClosed(st, e)
    ELSE HandleLegacyClosed(st, e)

\* `for (const e of events)`, left at the first throw
RECURSIVE HandleAllClosed(_, _, _)
HandleAllClosed(v, st, evs) ==
    IF evs = <<>> THEN Ran(st)
    ELSE LET r == HandleClosed(v, st, Head(evs)) IN
         IF r.threw THEN r ELSE HandleAllClosed(v, r.st, Tail(evs))

\* `for (const seg of segments)` of sse.ts: a segment is parsed when its turn
\* comes, so the segments after a throw are dropped unparsed
RECURSIVE SegmentsClosed(_, _, _, _)
SegmentsClosed(v, st, segments, evs) ==
    IF segments = <<>> THEN [st |-> st, events |-> evs]
    ELSE LET es == parseSSELines(Head(segments) \o <<NL, NL>>)
             r == HandleAllClosed(v, st, es)
         IN  IF r.threw THEN [st |-> r.st, events |-> evs \o es]
             ELSE SegmentsClosed(v, r.st, Tail(segments), evs \o es)

processTextClosed(v, st, buf, text) ==
    LET segments == SplitDelim(buf \o text)
        r == SegmentsClosed(v, st, SubSeq(segments, 1, Len(segments) - 1), <<>>)
    IN  [st |-> r.st, buffered |-> segments[Len(segments)], events |-> r.events]

\* the frame loop of stream-translator.ts: the frame that throws has been cut
\* off the buffer, the frames after it stay in it
RECURSIVE FrameLoopClosed(_, _, _)
FrameLoopClosed(st, buffer, evs) ==
    LET idx == IndexOfDelim(buffer, 1) IN
    IF idx = 0 THEN [st |-> st, buffered |-> buffer, events |-> evs]
    ELSE LET frame == SubSeq(buffer, 1, idx - 1)
             es == parseSSELinesLegacy(frame \o <<NL, NL>>)
             rest == SubSeq(buffer, idx + 2, Len(buffer))
             r == HandleAllClosed("c", st, es)
         IN  IF r.threw THEN [st |-> r.st, buffered |-> rest, events |-> evs \o es]
             ELSE FrameLoopClosed(r.st, rest, evs \o es)

OnChunkClosed(v, st, buf, pending, bytes) ==
    LET d == Decode(pending, bytes)
        r == IF v = "c" THEN FrameLoopClosed(st, buf \o d.text, <<>>)
             ELSE processTextClosed(v, st, buf, d.text)
    IN  [st |-> r.st, buffered |-> r.buffered, events |-> r.events, carry |-> d.carry]

\* emitDone and the catch handler while enqueue throws: (a) and (b) set
\* `finished` after the enqueue, (c) before it
EndClosed(v, st) ==
    IF v = "c" /\ ~st.finished THEN [st EXCEPT !.finished = TRUE] ELSE st

\* the consumer cancels the output stream; cancel() does nothing
Cancel ==
    /\ stream = "readable"
    /\ stream' = "cancelled"
    /\ UNCHANGED <<variant, buffered, carry, sentRole, finished, blockTypeByIndex,
                   signatureByIndex, usage, out, pump, outstanding, events, recv,
                   sent, cut, splits>>
    /\ UNCHANGED <<turnVars, serviceVars, errorVars, peerVars, mapperVars>>

\* reader.read() resolves with a chunk after the cancel
ReadClosed(bytes) ==
    /\ pump = "reading"
    /\ stream = "cancelled"
    /\ LET r == OnChunkClosed(variant, State, buffered, carry, bytes) IN
        /\ SetState(r.st)
        /\ buffered' = r.buffered
        /\ carry' = r.carry
        /\ events' = events \o r.events
    /\ recv' = recv \o bytes
    /\ outstanding' = IssueRead(outstanding - 1)
    /\ UNCHANGED <<variant, stream, pump>>
    /\ UNCHANGED <<turnVars, serviceVars, errorVars, peerVars, mapperVars>>

\* reader.read() resolves with {done: true}, or rejects, after the cancel
ReadEndClosed ==
    /\ pump = "reading"
    /\ stream = "cancelled"
    /\ SetState(EndClosed(variant, State))
    /\ pump' \in {"stopped", "failed"}
    /\ outstanding' = outstanding - 1
    /\ UNCHANGED <<variant, buffered, carry, events, recv, sent, cut, splits, stream>>
    /\ UNCHANGED <<turnVars, serviceVars, errorVars, peerVars, mapperVars>>

CancelPool(v) ==
    IF v = "a"
    THEN {MessageStart, TextDeltaA(Hello), SignatureDelta(0, <<"x">>),
          BlockStart(0, <<"thinking">>), BlockStop(0)}
    ELSE IF v = "b"
    THEN {SummaryPartAdded, OutputTextDelta(Hello), ResponseCreated, ResponseCompletedB}
    ELSE {ResponseCreated, OutputTextDelta(Hello), ResponseCompletedWith(<<"stop">>, 1, 2, 3)}

DeliverOpen ==
    \E f \in CancelPool(variant) :
        /\ Len(sent) < MaxCancelFrames
        /\ stream = "readable"
        /\ Read(Wire(f))
        /\ sent' = Append(sent, f)
        /\ UNCHANGED <<cut, splits>>

DeliverClosed ==
    \E f \in CancelPool(variant) :
        /\ Len(sent) < MaxCancelFrames
        /\ ReadClosed(Wire(f))
        /\ sent' = Append(sent, f)
        /\ UNCHANGED <<cut, splits>>

ReadDoneOpen == stream = "readable" /\ ReadDone

ReadFailOpen == stream = "readable" /\ ReadFail

NextCancel ==
    \/ DeliverOpen
    \/ ReadDoneOpen
    \/ ReadFailOpen
    \/ Cancel
    \/ DeliverClosed
    \/ ReadEndClosed

SpecCancel == Init /\ [][NextCancel]_vars

(***************************************************************************)
(* C24: when the consumer cancels a translator's output stream the         *)
(* translator cancels the upstream read that is still open, so that it     *)
(* stops reading the upstream: no chunk is read after the cancel.          *)
(***************************************************************************)
C24_CancelStopsReading == [][stream = "cancelled" => recv' = recv]_vars

(***************************************************************************)
(* An upstream of variant (c) whose events carry usage figures             *)
(***************************************************************************)
MaxUsageFrames == 3     \* frames an upstream that reports usage writes

RateLimitsUpdated(p, c, t) ==
    Frame(<<"rate_limits.updated">>,
          ("usage.prompt_tokens" :> p) @@ ("usage.completion_tokens" :> c)
          @@ ("usage.total_tokens" :> t))

\* an event the translator has no branch for, with a complete usage object
ResponseInProgress(p, c, t) ==
    Frame(<<"response.in_progress">>,
          ("usage.prompt_tokens" :> p) @@ ("usage.completion_tokens" :> c)
          @@ ("usage.total_tokens" :> t))

UsagePool ==
    {OutputTextDelta(Hello),
     ResponseCompletedWith(<<"stop">>, 1, 2, 3),
     ResponseCompletedNested(4, 5, 9),
     RateLimitsUpdated(2, 2, 4),
     Frame(<<"rate_limits.updated">>, "usage.total_tokens" :> 8),
     Frame(<<"rate_limits.updated">>, "usage.prompt_tokens" :> 6),
     ResponseInProgress(7, 0, 7)}

InitUsage == InitOf({"c"})

DeliverUsage ==
    \E f \in UsagePool :
        /\ Len(sent) < MaxUsageFrames
        /\ Read(Wire(f))
        /\ sent' = Append(sent, f)
        /\ UNCHANGED <<cut, splits>>

NextUsage == DeliverUsage \/ ReadDone \/ ReadFail

SpecUsage == InitUsage /\ [][NextUsage]_vars

\* the usage object of the i-th frame: data.usage, else data.response.usage,
\* else the empty object
FrameUsage(i) ==
    LET data == sent[i].data
        top == {f \in Figures : ("usage." \o f) \in DOMAIN data}
        nested == {f \in Figures : ("response.usage." \o f) \in DOMAIN data}
    IN  IF top # {} THEN [f \in top |-> data["usage." \o f]]
        ELSE [f \in nested |-> data["response.usage." \o f]]

\* the two events variant (c) reads usage from
CountsUsage(i) == sent[i].ev \in {<<"response.completed">>, <<"rate_limits.updated">>}

\* the stream has ended and the last frame written is the usage summary of u
SummaryIs(u) ==
    pump \in {"stopped", "failed"} =>
        /\ Len(out) >= 2
        /\ out[Len(out) - 1] = encodeDataLine(DONE)
        /\ out[Len(out)] = UsageSummary(u)

(***************************************************************************)
(* C25: variant (c) updates its running usage total from any upstream      *)
(* event that carries a usage object, whatever the event's type, and the   *)
(* trailing usage.summary frame reports the total as of the last such      *)
(* event.                                                                  *)
(***************************************************************************)
C25_UsageFromAnyEvent ==
    LET i == Last({j \in DOMAIN sent : "total_tokens" \in DOMAIN FrameUsage(j)})
        u == IF i = 0 THEN ZeroUsage
             ELSE [f \in Figures |-> IF f \in DOMAIN FrameUsage(i) THEN FrameUsage(i)[f]
                                     ELSE usage[f]]
    IN  /\ usage.total_tokens = u.total_tokens
        /\ SummaryIs(u)

\* C25 as amended: only response.completed and rate_limits.updated are read,
\* and only when the usage object carries total_tokens; each figure is the one
\* of the last such event that carries it, and the summary reports them
C25_UsageFromTwoEvents ==
    LET u == [f \in Figures |->
                LET i == Last({j \in DOMAIN sent :
                                 /\ CountsUsage(j)
                                 /\ {"total_tokens", f} \subseteq DOMAIN FrameUsage(j)})
                IN  IF i = 0 THEN 0 ELSE FrameUsage(i)[f]]
    IN  /\ usage = u
        /\ SummaryIs(u)

\* the totals of a rate_limits.updated survive a later response.in_progress
\* with other figures, and the summary reports them
C25_Witness ==
    /\ sent = <<RateLimitsUpdated(2, 2, 4), ResponseInProgress(7, 0, 7)>>
    /\ pump = "stopped"
    /\ out[Len(out)] = UsageSummary([prompt_tokens |-> 2, completion_tokens |-> 2,
                                     total_tokens |-> 4])

\* the positions in `sent` of the frames of event ev for content-block index i
FramesOf(ev, i) ==
    {j \in DOMAIN sent : /\ sent[j].ev = <<ev>>
                         /\ Has(sent[j].data, "index")
                         /\ sent[j].data["index"] = i}

\* the indices whose last content_block_start has no content_block_stop after it
OpenIndices ==
    {i \in {sent[j].data["index"] : j \in {k \in DOMAIN sent : Has(sent[k].data, "index")}} :
        Last(FramesOf("content_block_start", i)) > Last(FramesOf("content_block_stop", i))}

(***************************************************************************)
(* C26: in variant (a) blockTypeByIndex and signatureByIndex hold an entry *)
(* for index i only between content_block_start(i) and the matching        *)
(* content_block_stop(i): a delta for an index that is not open creates or *)
(* changes no entry.                                                       *)
(***************************************************************************)
C26_BlockLifecycle ==
    /\ DOMAIN blockTypeByIndex = OpenIndices
    /\ DOMAIN signatureByIndex = OpenIndices

\* the same for the map of block types alone
BlockTypeLifecycle == DOMAIN blockTypeByIndex = OpenIndices

(***************************************************************************)
(* An upstream of variant (a) that ends its reply for different reasons    *)
(***************************************************************************)
MaxFinishFrames == 3    \* frames an upstream that sends stop reasons writes

FinishPool ==
    {MessageStart, TextDeltaA(Hello),
     MessageDeltaA(<<"end_turn">>), MessageDeltaA(<<"max_tokens">>),
     MessageDeltaA(<<"tool_use">>),
     \* no stop reason at all
     Frame(<<"message_delta">>, "type" :> <<"message_delta">>),
     \* the stop reason beside the delta, not inside it
     Frame(<<"message_delta">>, "stop_reason" :> <<"max_tokens">>)}

InitFinish == InitOf({"a"})

DeliverFinish ==
    \E f \in FinishPool :
        /\ Len(sent) < MaxFinishFrames
        /\ Read(Wire(f))
        /\ sent' = Append(sent, f)
        /\ UNCHANGED <<cut, splits>>

NextFinish == DeliverFinish \/ ReadDone \/ ReadFail

SpecFinish == InitFinish /\ [][NextFinish]_vars

\* the stop reason a message_delta frame carries, <<>> when it carries none
StopReasonOf(f) ==
    IF Has(f.data, "delta.stop_reason") THEN f.data["delta.stop_reason"]
    ELSE Str(f.data, "stop_reason")

\* the chunks the claim has a stop reason produce
FinishFor(reason) ==
    IF reason = <<"end_turn">> THEN <<FinishChunk("stop")>>
    ELSE IF reason = <<"max_tokens">> THEN <<FinishChunk("length")>>
    ELSE <<>>

(***************************************************************************)
(* C27: in variant (a) a message_delta with stop reason end_turn emits a   *)
(* finish chunk with finish_reason "stop", one with max_tokens a finish    *)
(* chunk with finish_reason "length", and a message_delta with any other   *)
(* or no stop reason emits no finish chunk (and nothing else).             *)
(***************************************************************************)
C27_FinishMapping ==
    [][(/\ Len(sent') = Len(sent) + 1
        /\ sent'[Len(sent')].ev = <<"message_delta">>)
       => out' = out \o FinishFor(StopReasonOf(sent'[Len(sent')]))]_vars

\* max_tokens gave "length", tool_use gave nothing
C27_Witness ==
    /\ sent = <<MessageStart, MessageDeltaA(<<"tool_use">>), MessageDeltaA(<<"max_tokens">>)>>
    /\ out = <<RoleChunk, FinishChunk("length")>>

\* every complete frame received so far has been cut off the accumulator,
\* parsed and handled, and what the handlers enqueue has been enqueued
AllFramesProcessed ==
    /\ IndexOfDelim(buffered, 1) = 0
    /\ events = EventsOf(sent)
    /\ out = HandleAll(variant, InitialState, events).out

(***************************************************************************)
(* C28: in every translator at most one upstream read is outstanding at    *)
(* any time, and the next upstream chunk is requested only after every     *)
(* complete frame extracted from the chunks before it has been processed   *)
(* and its output frames enqueued.                                         *)
(***************************************************************************)
C28_OneReadAtATime ==
    /\ outstanding \in {0, 1}
    /\ outstanding = 1 <=> pump = "reading"
    /\ outstanding = 1 => AllFramesProcessed

\* a chunk has ended inside the second frame; the first was handled before the
\* read that is now outstanding was issued, the second waits in the accumulator
C28_Witness ==
    /\ outstanding = 1
    /\ Len(sent) = 1
    /\ cut # <<>>
    /\ Len(events) = 1
    /\ out # <<>>
    /\ buffered # <<>>

(***************************************************************************)
(* Two translator instances, each on an upstream of its own.  The first is *)
(* the instance of the stream variables, the second is `peer`.  Every      *)
(* variable of a translator is declared inside the function that creates   *)
(* it, so the handlers of an instance work on the variables of that call.  *)
(***************************************************************************)
MaxIsolatedFrames == 2  \* frames each of the two upstreams writes

\* a variable shared by every instance, as a module-level `let` would be
ModuleLevel(mine, theirs) == theirs

\* `let buffered = ""; let sentRole = false; ...` inside the function: the
\* handlers of an instance see the variables of their own call
Closure(mine, theirs) == mine

\* the upstream of the second instance writes a frame and its read resolves
DeliverPeer ==
    \E f \in ChunkPool(peer.variant) :
        /\ peer.pump = "reading"
        /\ Len(peer.sent) < MaxIsolatedFrames
        /\ LET r == OnChunk(peer.variant, Closure(peer.st, State),
                            Closure(peer.buffered, buffered), peer.carry, Wire(f))
           IN  peer' = [peer EXCEPT !.st = r.st, !.buffered = r.buffered,
                                    !.carry = r.carry, !.sent = Append(@, f)]
        /\ UNCHANGED <<streamVars, turnVars, serviceVars, errorVars, mapperVars>>

\* the read of the second instance resolves with {done: true}
PeerDone ==
    /\ peer.pump = "reading"
    /\ LET st == Closure(peer.st, State) IN
       peer' = [peer EXCEPT !.st = IF peer.variant = "c" THEN emitDoneLegacy(st)
                                   ELSE emitDone(st),
                            !.pump = "stopped"]
    /\ UNCHANGED <<streamVars, turnVars, serviceVars, errorVars, mapperVars>>

\* the read of the second instance rejects
PeerFail ==
    /\ peer.pump = "reading"
    /\ peer' = [peer EXCEPT !.st = OnReadError(peer.variant, Closure(peer.st, State)),
                            !.pump = "failed"]
    /\ UNCHANGED <<streamVars, turnVars, serviceVars, errorVars, mapperVars>>

\* the upstream of the first instance writes a frame and its read resolves
DeliverIsolated ==
    \E f \in ChunkPool(variant) :
        /\ Len(sent) < MaxIsolatedFrames
        /\ Read(Wire(f))
        /\ sent' = Append(sent, f)
        /\ UNCHANGED <<cut, splits>>

InitIsolation ==
    /\ StartedOf(Variants)
    /\ peer \in {NewInstance(v, TRUE) : v \in Variants}

NextIsolation ==
    \/ DeliverIsolated
    \/ ReadDone
    \/ ReadFail
    \/ DeliverPeer
    \/ PeerDone
    \/ PeerFail

SpecIsolation == InitIsolation /\ [][NextIsolation]_vars

\* the state of a translator of variant v that has read the frames fs alone
RECURSIVE AloneFrames(_, _, _)
AloneFrames(v, st, fs) ==
    IF fs = <<>> THEN st
    ELSE AloneFrames(v, OnChunk(v, st, <<>>, <<>>, Wire(Head(fs))).st, Tail(fs))

\* ... and whose upstream has then ended as p tells
Alone(v, fs, p) ==
    LET st == AloneFrames(v, InitialState, fs) IN
    IF p = "stopped" THEN (IF v = "c" THEN emitDoneLegacy(st) ELSE emitDone(st))
    ELSE IF p = "failed" THEN OnReadError(v, st)
    ELSE st

C30_NoPartialFrameOutput ==
    /\ Len(events) = Len(sent)
    /\ \A i \in DOMAIN events : events[i].event = sent[i].ev
    /\ out = Alone(variant, sent, pump).out

\* the upstream ended inside its second frame, whose bytes are left unread in
\* the accumulator
C30_Witness ==
    /\ pump = "stopped"
    /\ Len(sent) = 1
    /\ cut # <<>>
    /\ buffered # <<>>
    /\ Len(events) = 1

(***************************************************************************)
(* An upstream that writes frames whose payload is not JSON                *)
(***************************************************************************)
MaxMalformedFrames == 3

\* a frame of the pool, and whether the upstream spoils its payload
Marked(f, broken) == [ev |-> f.ev, data |-> f.data, broken |-> broken]

\* the payload stops before its closing brace
WireBroken(f) ==
    LET json == JSONText(f.data) IN
    <<EVENT, SP>> \o f.ev \o <<NL, DATA, SP>> \o SubSeq(json, 1, Len(json) - 1)
    \o <<NL, NL>>

\* an event: line and a blank line, no data: line
WireNoData(f) == <<EVENT, SP>> \o f.ev \o <<NL, NL>>

WireMarked(f) == IF f.broken THEN WireBroken(f) ELSE Wire(f)

MalformedPool(v) ==
    LET fs == IF v = "a"
              THEN {TextDeltaA(Hello), BlockStart(0, <<"thinking">>), BlockStop(0),
                    MessageDeltaA(<<"end_turn">>)}
              ELSE IF v = "b"
              THEN {OutputTextDelta(Hello), SummaryPartAdded, ResponseIncomplete}
              ELSE {OutputTextDelta(Hello), ResponseCompletedWith(<<"stop">>, 1, 2, 3),
                    RateLimitsUpdated(1, 2, 3)}
    IN  {Marked(f, b) : f \in fs, b \in BOOLEAN}

InitMalformed == Init

DeliverMalformed ==
    \E f \in MalformedPool(variant) :
        /\ Len(sent) < MaxMalformedFrames
        /\ Read(WireMarked(f))
        /\ sent' = Append(sent, f)
        /\ UNCHANGED <<cut, splits>>

NextMalformed == DeliverMalformed \/ ReadDone \/ ReadFail

SpecMalformed == InitMalformed /\ [][NextMalformed]_vars

\* the state of a translator that has read fs, each spoiled frame written
\* without its data: line
RECURSIVE WithoutPayload(_, _, _)
WithoutPayload(v, st, fs) ==
    IF fs = <<>> THEN st
    ELSE LET f == Head(fs)
             bytes == IF f.broken THEN WireNoData(f) ELSE Wire(f)
         IN  WithoutPayload(v, OnChunk(v, st, <<>>, <<>>, bytes).st, Tail(fs))

AfterEnd(v, st, p) ==
    IF p = "stopped" THEN (IF v = "c" THEN emitDoneLegacy(st) ELSE emitDone(st))
    ELSE IF p = "failed" THEN OnReadError(v, st)
    ELSE st

(***************************************************************************)
(* C31: a complete frame with an event: line whose payload is not JSON     *)
(* yields an event with data null; no error frame is written for it (the   *)
(* only error frame is the one of a failed read); and the translator's     *)
(* state and output are those it has when every such frame is written      *)
(* with no data at all, so every later frame is translated all the same.   *)
(***************************************************************************)
C31_MalformedNotFatal ==
    /\ Len(events) = Len(sent)
    /\ \A i \in DOMAIN sent :
        /\ events[i].event = sent[i].ev
        /\ events[i].data = IF sent[i].broken THEN JSONNull ELSE sent[i].data
    /\ \A i \in DOMAIN out : IsError(out[i]) => pump = "failed"
    /\ State = AfterEnd(variant, WithoutPayload(variant, InitialState, sent), pump)

\* variant (a): a text delta with a spoiled payload, then the same delta
\* intact, whose text is written; the stream has ended
C31_Witness ==
    /\ variant = "a"
    /\ sent = <<Marked(TextDeltaA(Hello), TRUE), Marked(TextDeltaA(Hello), FALSE)>>
    /\ events[1].data = JSONNull
    /\ pump = "stopped"
    /\ out = <<RoleChunk, ContentChunk(Hello), encodeDataLine(DONE)>>

(***************************************************************************)
(* Signature deltas in the output                                          *)
(***************************************************************************)
IsSignatureEvent(f) ==
    /\ f.ev = <<"content_block_delta">>
    /\ Str(f.data, "delta.type") = <<"signature_delta">>

\* the step reads one signature_delta frame
ReadsSignature ==
    /\ Len(sent') = Len(sent) + 1
    /\ IsSignatureEvent(sent'[Len(sent')])

\* every piece of signature the upstream has sent
SignatureTokens ==
    UNION {Range(sent[i].data["delta.signature"]) :
              i \in {j \in DOMAIN sent : IsSignatureEvent(sent[j])}}

IsThinkingDone(o) ==
    /\ IsThinking(o)
    /\ o.data.type = "oai.thinking.done"
    /\ o.data.data.type = "thinking"

\* the text an output frame shows outside the signature of a thinking-done frame
Shown(o) ==
    IF IsContent(o) THEN Range(o.data.delta.content)
    ELSE IF IsThinking(o)
    THEN IF o.data.data.type = "thinking"
         THEN Range(o.data.data.thinking)
              \cup (IF IsThinkingDone(o) THEN {} ELSE Range(o.data.data.signature))
         ELSE Range(o.data.data.data)
    ELSE {}

(***************************************************************************)
(* C32: in variant (a) the step that reads a signature_delta writes no     *)
(* thinking frame and no content chunk (at most the role announcement of   *)
(* the first delta); no piece of a signature shows in the output outside   *)
(* the signature of a thinking-done frame, and the thinking-done frames    *)
(* are those of the blocks that were closed, each with the signature       *)
(* pieces received for its block.                                          *)
(***************************************************************************)
C32_SignatureOnlyAtClose ==
    /\ [][ReadsSignature => out' \in {out, Append(out, RoleChunk)}]_vars
    /\ [](\A i \in DOMAIN out : Shown(out[i]) \cap SignatureTokens = {})
    /\ [](SelectSeq(out, IsThinkingDone)
            = SelectSeq(ExpectedThinking(sent, Len(sent)), IsThinkingDone))

\* the signature read while the block was open is in the thinking-done frame
\* of its close, and nowhere before it
C32_Witness ==
    /\ sent = <<BlockStart(0, <<"thinking">>), SignatureDelta(0, <<"x">>), BlockStop(0)>>
    /\ out = <<RoleChunk, ThinkingFrame("oai.thinking.done", <<>>, <<"x">>)>>

(***************************************************************************)
(* The request mappers (src/unnamed/part_010, src/unnamed/part_013) and    *)
(* the token rules (src/src/utils/tokens.ts).  A unified request is a      *)
(* record holding the members that are present (a member that is null is   *)
(* left out: the code treats null and undefined alike).  The content of a  *)
(* message is a string, for which normalizeContentToText is the identity;  *)
(* no assistant message carries tool_calls.  The members a mapper copies   *)
(* without reading them (tools, thinking, reasoning) are left out of the   *)
(* provider request.  A builder call ends in [threw |-> message] or in     *)
(* [request |-> the provider request].                                     *)
(***************************************************************************)
MaxMessages == 2        \* messages of a unified request

MAX_TOKENS_CAP == 20000
DEFAULT_MAX_TOKENS == 20000

\* clamp of tokens.ts, for a number that is there and is not NaN
clamp(num, min, max) ==
    IF num < min THEN min ELSE IF num > max THEN max ELSE num

\* req.k ?? undefined : <<>> or <<the number>>
Opt(r, k) == IF k \in DOMAIN r THEN <<r[k]>> ELSE <<>>

\* a ?? b
Coalesce(a, b) == IF a # <<>> THEN a ELSE b

selectMaxTokens(r, provider) ==
    LET fromReqMax == Opt(r, "max_tokens")
        fromReqMaxCompletion == Opt(r, "max_completion_tokens")
        chosen == IF provider = "openai"
                  THEN Coalesce(fromReqMax, fromReqMaxCompletion)
                  ELSE Coalesce(Coalesce(fromReqMax, fromReqMaxCompletion),
                                <<DEFAULT_MAX_TOKENS>>)
    IN  IF chosen = <<>>
        THEN (IF provider = "anthropic" THEN <<DEFAULT_MAX_TOKENS>> ELSE <<>>)
        ELSE <<clamp(chosen[1], 1, MAX_TOKENS_CAP)>>

\* model.toLowerCase(), for the model names of the requests below
toLowerCase(model) == IF model = "GPT-5-mini" THEN "gpt-5-mini" ELSE model

\* (model || "").toLowerCase().startsWith("gpt-5")
useMaxCompletionTokensField(model) == toLowerCase(model) \in {"gpt-5", "gpt-5-mini"}

\* model.replace(/-\d{8}$/, "")
stripAnthropicDateSuffix(model) ==
    IF model = "claude-sonnet-4-5-20250929" THEN "claude-sonnet-4-5" ELSE model

HasRole(ms, role) == \E i \in DOMAIN ms : ms[i].role = role

\* messages.some((m) => m.role === "user")
ensureHasUserMessage(ms) == HasRole(ms, "user")

\* temperature of the three mappers: <<>> or <<the clamped number>>
Temperature(r) ==
    IF "temperature" \in DOMAIN r THEN <<clamp(r.temperature, 0, 2)>> ELSE <<>>

\* req.stream === null || req.stream === undefined ? true : Boolean(req.stream)
StreamFlag(r) == IF "stream" \in DOMAIN r THEN r.stream ELSE TRUE

OptMember(k, opt) == IF opt # <<>> THEN k :> opt[1] ELSE EmptyObject

\* ---- provider A --------------------------------------------------------
\* the first system message becomes the system text unless req.system is there
RECURSIVE SystemText(_, _)
SystemText(ms, systemText) ==
    IF ms = <<>> THEN systemText
    ELSE IF Head(ms).role = "system" /\ (systemText = <<>> \/ systemText[1] = <<>>)
    THEN SystemText(Tail(ms), <<Head(ms).content>>)
    ELSE SystemText(Tail(ms), systemText)

\* toAnthropicMessagesWithTools, one message
ToAnthropicMessage(m) ==
    IF m.role = "system" THEN <<>>
    ELSE IF m.role = "assistant" THEN <<[role |-> "assistant", content |-> m.content]>>
    ELSE IF m.role = "tool"
    THEN <<[role |-> "user",
            content |-> <<[type |-> "tool_result",
                           tool_use_id |-> Field(m, "tool_call_id", ""),
                           content |-> m.content]>>]>>
    ELSE IF m.role = "user" THEN <<[role |-> "user", content |-> m.content]>>
    ELSE <<>>

RECURSIVE ToAnthropicMessages(_)
ToAnthropicMessages(ms) ==
    IF ms = <<>> THEN <<>>
    ELSE ToAnthropicMessage(Head(ms)) \o ToAnthropicMessages(Tail(ms))

toAnthropicMessagesWithTools(r) ==
    [system |-> SystemText(r.messages, IF "system" \in DOMAIN r THEN <<r.system>> ELSE <<>>),
     messages |-> ToAnthropicMessages(r.messages)]

MissingFields == [threw |-> "Missing required fields: model, messages"]
NoUserMessage == [threw |-> "At least one user message is required"]

mapOAItoAnthropic(r) ==
    IF "messages" \notin DOMAIN r \/ "model" \notin DOMAIN r THEN MissingFields
    ELSE LET conv == toAnthropicMessagesWithTools(r) IN
         IF ~ensureHasUserMessage(conv.messages) THEN NoUserMessage
         ELSE [request |->
                  [model |-> stripAnthropicDateSuffix(r.model),
                   messages |-> conv.messages,
                   max_tokens |-> Coalesce(selectMaxTokens(r, "anthropic"),
                                           <<DEFAULT_MAX_TOKENS>>)[1],
                   stream |-> StreamFlag(r)]
                  @@ OptMember("system", conv.system)
                  @@ OptMember("temperature", Temperature(r))
                  @@ Member1("stop_sequences", Field(r, "stop", <<>>) # <<>>,
                             Field(r, "stop", <<>>)),
               warnIgnoredTools |-> FALSE]

\* ---- provider B, chat completions --------------------------------------
\* the system text is put first when no message has the system role
WithSystem(r, ms) ==
    IF "system" \in DOMAIN r /\ r.system # <<>> /\ ~HasRole(ms, "system")
    THEN <<[role |-> "system", content |-> r.system]>> \o ms
    ELSE ms

mapOAItoOpenAI(r) ==
    IF "messages" \notin DOMAIN r \/ "model" \notin DOMAIN r THEN MissingFields
    ELSE LET messages == WithSystem(r, r.messages)
             maxTokens == selectMaxTokens(r, "openai")
         IN  IF ~HasRole(messages, "user") THEN NoUserMessage
             ELSE [request |->
                      [model |-> r.model, messages |-> messages, stream |-> StreamFlag(r)]
                      @@ OptMember("temperature", Temperature(r))
                      @@ Member1("stop", Field(r, "stop", <<>>) # <<>>,
                                 Field(r, "stop", <<>>))
                      @@ OptMember(IF useMaxCompletionTokensField(r.model)
                                   THEN "max_completion_tokens" ELSE "max_tokens",
                                   maxTokens)]

\* ---- provider B, responses ---------------------------------------------
RECURSIVE ToolAsUser(_)
ToolAsUser(ms) ==
    IF ms = <<>> THEN <<>>
    ELSE <<[role |-> IF Head(ms).role = "tool" THEN "user" ELSE Head(ms).role,
            content |-> Head(ms).content]>> \o ToolAsUser(Tail(ms))

mapOAItoOpenAIResponses(r) ==
    IF "messages" \notin DOMAIN r \/ "model" \notin DOMAIN r THEN MissingFields
    ELSE LET messages == WithSystem(r, ToolAsUser(r.messages))
             chosenMax == IF "max_tokens" \in DOMAIN r
                          THEN <<clamp(r.max_tokens, 1, MAX_TOKENS_CAP)>>
                          ELSE IF "max_completion_tokens" \in DOMAIN r
                          THEN <<clamp(r.max_completion_tokens, 1, MAX_TOKENS_CAP)>>
                          ELSE <<>>
         IN  IF ~HasRole(messages, "user") THEN NoUserMessage
             ELSE [request |->
                      [model |-> toLowerCase(r.model), input |-> messages,
                       stream |-> StreamFlag(r)]
                      @@ OptMember("temperature", Temperature(r))
                      @@ OptMember("max_output_tokens", chosenMax)]

\* ---- the orchestrator's builder, with the checks it starts with --------
BuildResponsesPayload(r) ==
    IF "messages" \notin DOMAIN r \/ "model" \notin DOMAIN r THEN MissingFields
    ELSE [request |-> buildResponsesPayload(r)]

Builders ==
    {"mapOAItoAnthropic", "mapOAItoOpenAI", "mapOAItoOpenAIResponses",
     "buildResponsesPayload"}

CallBuilder(b, r) ==
    IF b = "mapOAItoAnthropic" THEN mapOAItoAnthropic(r)
    ELSE IF b = "mapOAItoOpenAI" THEN mapOAItoOpenAI(r)
    ELSE IF b = "mapOAItoOpenAIResponses" THEN mapOAItoOpenAIResponses(r)
    ELSE BuildResponsesPayload(r)

\* ---- the unified requests of the model ---------------------------------
Roles == {"system", "user", "assistant", "tool"}

ContentOf(role) ==
    IF role = "system" THEN <<"Be brief">>
    ELSE IF role = "user" THEN <<"Weather?">>
    ELSE IF role = "assistant" THEN <<"Sunny">>
    ELSE <<"{}">>

MessageLists ==
    UNION {{[i \in 1..n |-> [role |-> rs[i], content |-> ContentOf(rs[i])]] :
               rs \in [1..n -> Roles]} : n \in 0..MaxMessages}

UnifiedRequests ==
    {[model |-> m] @@ ms @@ t @@ mt @@ mct @@ sys :
        m \in {"claude-sonnet-4-5-20250929", "GPT-5-mini", "o4-mini"},
        ms \in {EmptyObject} \cup {"messages" :> l : l \in MessageLists},
        t \in {EmptyObject} \cup {"temperature" :> x : x \in {-1, 1, 3}},
        mt \in {EmptyObject} \cup {"max_tokens" :> x : x \in {0, MAX_TOKENS_CAP + 1}},
        mct \in {EmptyObject} \cup {"max_completion_tokens" :> x : x \in {7}},
        sys \in {EmptyObject, "system" :> <<"Be brief">>}}

InitMapper ==
    /\ NoStream
    /\ NoPeer
    /\ NoToolTurn
    /\ NoService
    /\ NoError
    /\ unified \in UnifiedRequests
    /\ built = <<>>

\* one builder is called with the request; its outcome replaces the last one
Build ==
    \E b \in Builders :
        /\ built' = <<[builder |-> b, outcome |-> CallBuilder(b, unified)]>>
        /\ UNCHANGED <<unified, streamVars, turnVars, serviceVars, errorVars, peerVars>>

NextMapper == Build

SpecMapper == InitMapper /\ [][NextMapper]_vars

Returned(o) == "request" \in DOMAIN o

\* the message list of a provider request
ProviderMessages(request) ==
    IF "input" \in DOMAIN request THEN request.input ELSE request.messages

(***************************************************************************)
(* C33: every request builder fails when the provider message list it has  *)
(* mapped holds no message of role user: a builder that returns a provider *)
(* request returns one whose message list holds a user message.            *)
(***************************************************************************)
C33_UserMessageInvariant ==
    \A i \in DOMAIN built :
        Returned(built[i].outcome)
            => HasRole(ProviderMessages(built[i].outcome.request), "user")

\* the three mappers keep it; the orchestrator's builder is the one that does not
UserMessageInvariantMappers ==
    \A i \in DOMAIN built :
        (built[i].builder # "buildResponsesPayload" /\ Returned(built[i].outcome))
            => HasRole(ProviderMessages(built[i].outcome.request), "user")

\* the token limit of a provider request, under whichever name: <<>> or <<n>>
TokenLimit(request) ==
    Coalesce(Opt(request, "max_tokens"),
             Coalesce(Opt(request, "max_completion_tokens"),
                      Opt(request, "max_output_tokens")))

Clamped(request) ==
    /\ "temperature" \in DOMAIN request => request.temperature \in 0..2
    /\ TokenLimit(request) # <<>> => TokenLimit(request)[1] \in 1..MAX_TOKENS_CAP

\* provider A's request has a token limit, the default when the request names none
AlwaysLimited(request) ==
    /\ "max_tokens" \in DOMAIN request
    /\ ("max_tokens" \notin DOMAIN unified /\ "max_completion_tokens" \notin DOMAIN unified)
           => request.max_tokens = DEFAULT_MAX_TOKENS

(***************************************************************************)
(* C34: for every unified request, each provider request that is built has *)
(* its temperature, when present, in [0,2] and its token limit, when       *)
(* present, in [1, the cap], whichever of max_tokens and                   *)
(* max_completion_tokens supplied it; the request of provider A always     *)
(* has a token limit, the default when the unified request gives none.     *)
(***************************************************************************)
C34_ClampingIsTotal ==
    \A i \in DOMAIN built :
        Returned(built[i].outcome) =>
            /\ Clamped(built[i].outcome.request)
            /\ built[i].builder = "mapOAItoAnthropic"
                   => AlwaysLimited(built[i].outcome.request)

\* the three mappers clamp; the orchestrator's builder hands the limit on as given
ClampingIsTotalMappers ==
    \A i \in DOMAIN built :
        (built[i].builder # "buildResponsesPayload" /\ Returned(built[i].outcome)) =>
            /\ Clamped(built[i].outcome.request)
            /\ built[i].builder = "mapOAItoAnthropic"
                   => AlwaysLimited(built[i].outcome.request)

(***************************************************************************)
(* C35: in every variant and for every upstream, the output holds at most  *)
(* one chunk whose finish_reason is not null, and no content chunk comes   *)
(* after it.                                                               *)
(***************************************************************************)
C35_AtMostOneFinish ==
    /\ Count(IsFinish) <= 1
    /\ \A i \in DOMAIN out : \A j \in DOMAIN out :
        (i < j /\ IsFinish(out[i])) => ~IsContent(out[j])

\* the part that does hold: once the stream is closed nothing is written, so
\* no chunk of either kind follows the terminal marker
NoChunkAfterDone ==
    \A i \in DOMAIN out : \A j \in DOMAIN out :
        (i < j /\ IsDone(out[i])) => ~IsChunk(out[j])

(***************************************************************************)
(* An upstream that eventually ends or fails                               *)
(***************************************************************************)
MaxLiveFrames == 2

\* chunks that are no frame: a byte that starts no character, a frame with no
\* event: line
StrayChunks == {<<ContByte>>, <<"oops", NL, NL>>}

\* the read resolves with a chunk that is no frame (once in a stream)
DeliverStray ==
    \E bytes \in StrayChunks :
        /\ "stray" \notin splits
        /\ Read(bytes)
        /\ splits' = splits \cup {"stray"}
        /\ UNCHANGED <<sent, cut>>

DeliverLive ==
    \E f \in MalformedPool(variant) :
        /\ Len(sent) < MaxLiveFrames
        /\ Read(WireMarked(f))
        /\ sent' = Append(sent, f)
        /\ UNCHANGED <<cut, splits>>

NextLive == DeliverLive \/ DeliverStray \/ ReadDone \/ ReadFail

\* the read that is outstanding is settled in the end: the upstream ends or
\* fails, and the promise callback of the pump then runs
SpecLive == Init /\ [][NextLive]_vars /\ WF_vars(ReadDone \/ ReadFail)

\* the terminal frames: [DONE] last in (a) and (b), [DONE] and the usage
\* summary last in (c)
TerminalFramesWritten ==
    /\ out # <<>>
    /\ IF variant = "c"
       THEN Len(out) >= 2 /\ IsDone(out[Len(out) - 1]) /\ IsUsageSummary(LastOut)
       ELSE IsDone(LastOut)

(***************************************************************************)
(* C36: when the upstream eventually ends or fails, the output stream of   *)
(* each translator is eventually closed, its terminal frames written       *)
(* before; it then stays closed, and it is never in an errored state,      *)
(* whatever frames, spoiled payloads or stray chunks the upstream sent.    *)
(***************************************************************************)
C36_EventuallyClosed ==
    /\ <>[](stream = "closed" /\ TerminalFramesWritten)
    /\ [](stream \in {"readable", "closed"})
    /\ [](stream = "closed" => TerminalFramesWritten)

\* the upstream sent a spoiled payload and a stray chunk, then failed; the
\* stream is closed
C36_Witness ==
    /\ stream = "closed"
    /\ pump = "failed"
    /\ "stray" \in splits
    /\ \E i \in DOMAIN sent : sent[i].broken
    /\ TerminalFramesWritten

(***************************************************************************)
(* Thinking blocks at the end of the stream                                *)
(***************************************************************************)
\* positions of the content_block_start frames that opened a thinking block
OpenedThinking ==
    {i \in DOMAIN sent :
        /\ sent[i].ev = <<"content_block_start">>
        /\ Has(sent[i].data, "index")
        /\ Str(sent[i].data, "content_block.type")
               \in {<<"thinking">>, <<"redacted_thinking">>}}

\* positions of the thinking-done frames of the output
DoneFrames ==
    {j \in DOMAIN out : IsThinking(out[j]) /\ out[j].data.type = "oai.thinking.done"}

\* the signature pieces sent for index idx after the start at position i
SentSignature(i) ==
    SignatureBetween(sent, sent[i].data["index"], i, Len(sent))

(***************************************************************************)
(* C37: in variant (a), once the stream is closed, every thinking block    *)
(* that was opened has its thinking-done frame in the output, before       *)
(* [DONE], and every signature piece received for an opened thinking block *)
(* is in the signature of a thinking-done frame, also when the upstream    *)
(* ended or failed while the block was open.                               *)
(***************************************************************************)
C37_ThinkingClosedBeforeDone ==
    (variant = "a" /\ stream = "closed") =>
        /\ Cardinality(DoneFrames) = Cardinality(OpenedThinking)
        /\ \A j \in DoneFrames : \E k \in DOMAIN out : j < k /\ IsDone(out[k])
        /\ \A i \in OpenedThinking :
            Str(sent[i].data, "content_block.type") = <<"thinking">> =>
                \A t \in Range(SentSignature(i)) :
                    \E j \in DoneFrames :
                        /\ out[j].data.data.type = "thinking"
                        /\ t \in Range(out[j].data.data.signature)

\* what does hold: the thinking-done frames that were written stand before
\* [DONE], one for each content_block_stop that closed a thinking block
ThinkingDoneBeforeDone ==
    (variant = "a" /\ stream = "closed") =>
        /\ \A j \in DoneFrames : \E k \in DOMAIN out : j < k /\ IsDone(out[k])
        /\ Cardinality(DoneFrames)
             = Cardinality({n \in DOMAIN sent :
                               /\ sent[n].ev = <<"content_block_stop">>
                               /\ OpenedAt(sent, n, n - 1) > 0})

(***************************************************************************)
(* An upstream of variant (a) that opens and closes blocks of three types  *)
(***************************************************************************)
MaxBlockFrames == 5

BlockPool ==
    {BlockStart(0, <<"thinking">>), BlockStart(1, <<"text">>),
     BlockStart(1, <<"redacted_thinking">>), BlockStop(0), BlockStop(1)}

InitBlocks == InitOf({"a"})

DeliverBlock ==
    \E f \in BlockPool :
        /\ Len(sent) < MaxBlockFrames
        /\ Read(Wire(f))
        /\ sent' = Append(sent, f)
        /\ UNCHANGED <<cut, splits>>

NextBlocks == DeliverBlock \/ ReadDone \/ ReadFail

SpecBlocks == InitBlocks /\ [][NextBlocks]_vars

\* the type of the block that is open at index idx after the frames 1..i of
\* fs; <<>> when none is (never opened, or closed since)
RECURSIVE OpenType(_, _, _)
OpenType(fs, idx, i) ==
    IF i = 0 THEN <<>>
    ELSE IF Has(fs[i].data, "index") /\ fs[i].data["index"] = idx
            /\ fs[i].ev = <<"content_block_stop">>
    THEN <<>>
    ELSE IF Has(fs[i].data, "index") /\ fs[i].data["index"] = idx
            /\ fs[i].ev = <<"content_block_start">>
    THEN Str(fs[i].data, "content_block.type")
    ELSE OpenType(fs, idx, i - 1)

\* the kinds of thinking-done frame the frames 1..n of fs call for, in order
RECURSIVE ExpectedDone(_, _)
ExpectedDone(fs, n) ==
    IF n = 0 THEN <<>>
    ELSE ExpectedDone(fs, n - 1) \o
         (IF fs[n].ev = <<"content_block_stop">> /\ Has(fs[n].data, "index")
          THEN LET type == OpenType(fs, fs[n].data["index"], n - 1) IN
               IF type = <<"thinking">> THEN <<"thinking">>
               ELSE IF type = <<"redacted_thinking">> THEN <<"redacted_thinking">>
               ELSE <<>>
          ELSE <<>>)

\* the kinds of the thinking-done frames of the output, in order
RECURSIVE DoneKinds(_)
DoneKinds(o) ==
    IF o = <<>> THEN <<>>
    ELSE (IF IsThinking(Head(o)) /\ Head(o).data.type = "oai.thinking.done"
          THEN <<Head(o).data.data.type>> ELSE <<>>) \o DoneKinds(Tail(o))

(***************************************************************************)
(* C38: in variant (a) the thinking-done frames of the output are, in      *)
(* order, those of the content_block_stop events whose index had a block   *)
(* of type thinking or redacted_thinking open: a content_block_stop for an *)
(* index never opened or already closed writes none, nor does the close of *)
(* a block of another type, so there is at most one for each               *)
(* content_block_start of a thinking block.                                *)
(***************************************************************************)
C38_OneDonePerThinkingBlock ==
    /\ DoneKinds(out) = ExpectedDone(sent, Len(sent))
    /\ Cardinality(DoneFrames) <= Cardinality(OpenedThinking)

\* a text block was opened and closed, then a thinking block, whose index
\* was closed twice: one thinking-done frame
C38_Witness ==
    /\ sent = <<BlockStart(1, <<"text">>), BlockStop(1),
                BlockStart(0, <<"thinking">>), BlockStop(0), BlockStop(0)>>
    /\ out = <<ThinkingFrame("oai.thinking.done", <<>>, <<>>)>>

(***************************************************************************)
(* C39: incrementRoundOrThrow adds one to the round counter on every       *)
(* invocation, the failing one included, so after an invocation has failed *)
(* every later one on the same ToolTurn fails; maxRounds is never written  *)
(* after the constructor and the counter never goes down, whatever other   *)
(* methods are called in between.                                          *)
(***************************************************************************)
C39_StickyFailure ==
    /\ [][/\ maxRounds' = maxRounds
          /\ rounds' >= rounds
          /\ Len(outcomes') = Len(outcomes) + 1 => rounds' = rounds + 1]_vars
    /\ [](\A i \in DOMAIN outcomes : \A j \in DOMAIN outcomes :
             (i < j /\ outcomes[i] = "threw") => outcomes[j] = "threw")
    /\ [](rounds = Len(outcomes))

\* cap 1: the second invocation failed, the counter went on to 3 and the
\* third failed too
C39_Witness ==
    /\ maxRounds = 1
    /\ outcomes = <<"ok", "threw", "threw">>
    /\ rounds = 3
====
